---- MODULE Spec2Model ----
(***************************************************************************)
(* The ad matching and injection core of the screenshot service:          *)
(* parseSize, the size/geometry predicates, the tiered matcher            *)
(* matchAdsToplacements, the video matcher matchVideoAdsToplacements,     *)
(* the injector replaceAds and the orchestrating processAdReplacement     *)
(* (src/src/services/adReplacement.js), with the size tables of           *)
(* adDetection.js.                                                         *)
(*                                                                         *)
(* Strings whose characters the code inspects (size strings) are          *)
(* sequences of one-character strings; URLs and selectors, which the      *)
(* matcher only compares for equality, are TLA+ strings.  A JavaScript    *)
(* value is a record [t |-> typeof-like tag, v |-> characters].           *)
(***************************************************************************)
EXTENDS Integers, Sequences, FiniteSets, TLC

VARIABLES
  pc,          \* position of the running call
  sizeInput,   \* argument of the parseSize call
  parsed,      \* value returned by the parseSize call
  placements,  \* the placements array handed to the matcher / orchestrator
  clientAds,   \* the clientAds (creatives) array handed to it
  matches,     \* the array of matches built so far (allMatches)
  results,     \* replaceAds: { successful, failed }
  cursor,      \* replaceAds: number of matches of the for-loop already handled
  lookup,      \* replaceAds: what the page answered to the last page.evaluate
  page,        \* replaceAds: what each page.evaluate did to the page's DOM
  processedAds, \* preprocessClientAds: the processedAds array built so far
  extraction,   \* preprocessClientAds: what the preview pages did, one entry per turn
  document,     \* detectAds: the elements of the page, in document order
  customSelectors, \* the route: validCustomSelectors of the request
  items,        \* processInParallel: items.length
  maxConcurrent, \* processInParallel: the concurrency limit it is called with
  currentIndex, \* processInParallel: index of the next item to take
  workers,      \* processInParallel: what each processNext() is doing
  rawResults,   \* processInParallel: the results array
  processorCalls, \* processInParallel: how often the processor was called per item
  browserInstance, \* puppeteerService: the module's browserInstance
  launches,     \* puppeteerService: number of puppeteer.launch() calls so far
  closes,       \* puppeteerService: number of closeBrowser() calls so far
  callers,      \* puppeteerService: what each pending getBrowser()/closeBrowser() is doing
  maxRetries,   \* navigateWithRetry: its maxRetries argument
  retryDelayMs, \* navigateWithRetry: its retryDelayMs argument
  attempt,      \* navigateWithRetry: the loop variable
  lastError,    \* navigateWithRetry: lastError
  navigation,   \* navigateWithRetry: the delays and page.goto calls made, in order
  capture,      \* captureScreenshot: its position, its page and what it has called
  netWait,      \* waitForNetworkSettled: its closure variables, timer and listeners
  viewport,     \* filterAdsByViewport: its viewport argument
  visibleAds    \* filterAdsByViewport: the array it returns

\* the state of the matching core, apart from pc
coreVars == <<sizeInput, parsed, placements, clientAds, matches, results, cursor, lookup, page>>

preprocessVars == <<processedAds, extraction>>

routeVars == <<document, customSelectors>>

parallelVars == <<items, maxConcurrent, currentIndex, workers, rawResults, processorCalls>>

browserVars == <<browserInstance, launches, closes, callers>>

navigationVars == <<maxRetries, retryDelayMs, attempt, lastError, navigation>>

captureVars == <<capture>>

waitVars == <<netWait>>

viewportVars == <<viewport, visibleAds>>

\* the state of the services around the matching core
serviceVars == <<preprocessVars, routeVars, parallelVars, browserVars, navigationVars, captureVars, waitVars, viewportVars>>

vars == <<pc, coreVars, serviceVars>>

PreprocessIdle ==
  /\ processedAds = <<>>
  /\ extraction = <<>>

RouteIdle ==
  /\ document = <<>>
  /\ customSelectors = <<>>

ParallelIdle ==
  /\ items = 0
  /\ maxConcurrent = 0
  /\ currentIndex = 0
  /\ workers = <<>>
  /\ rawResults = <<>>
  /\ processorCalls = <<>>

BrowserIdle ==
  /\ browserInstance = 0
  /\ launches = 0
  /\ closes = 0
  /\ callers = <<>>

NavigationIdle ==
  /\ maxRetries = 0
  /\ retryDelayMs = 0
  /\ attempt = 0
  /\ lastError = "null"
  /\ navigation = <<>>

CaptureIdle == capture = <<>>

WaitIdle == netWait = <<>>

ViewportIdle ==
  /\ viewport = <<>>
  /\ visibleAds = <<>>

\* no service has been called
ServicesIdle ==
  /\ PreprocessIdle
  /\ RouteIdle
  /\ ParallelIdle
  /\ BrowserIdle
  /\ NavigationIdle
  /\ CaptureIdle
  /\ WaitIdle
  /\ ViewportIdle

(***************************************************************************)
(* JavaScript values                                                       *)
(***************************************************************************)
null == [t |-> "null", v |-> <<>>]

undefined == [t |-> "undefined", v |-> <<>>]

Str(chars) == [t |-> "string", v |-> chars]

\* a number, kept by its decimal rendering
Num(chars) == [t |-> "number", v |-> chars]

\* an object such as {}
Obj == [t |-> "object", v |-> <<>>]

\* ToBoolean: '', 0, null and undefined are falsy
Truthy(value) ==
  CASE value.t = "string" -> value.v # <<>>
    [] value.t = "number" -> value.v # <<"0">>
    [] value.t = "object" -> TRUE
    [] OTHER -> FALSE

Digit == {"0", "1", "2", "3", "4", "5", "6", "7", "8", "9"}

DigitValue(c) ==
  CASE c = "0" -> 0 [] c = "1" -> 1 [] c = "2" -> 2 [] c = "3" -> 3 [] c = "4" -> 4
    [] c = "5" -> 5 [] c = "6" -> 6 [] c = "7" -> 7 [] c = "8" -> 8 [] c = "9" -> 9

DigitChar(d) ==
  CASE d = 0 -> "0" [] d = 1 -> "1" [] d = 2 -> "2" [] d = 3 -> "3" [] d = 4 -> "4"
    [] d = 5 -> "5" [] d = 6 -> "6" [] d = 7 -> "7" [] d = 8 -> "8" [] d = 9 -> "9"

RECURSIVE parseInt(_)
\* parseInt(run, 10) of a run of decimal digits
parseInt(run) ==
  IF run = <<>> THEN 0
  ELSE parseInt(SubSeq(run, 1, Len(run) - 1)) * 10 + DigitValue(run[Len(run)])

RECURSIVE NumberToString(_)
\* `${n}` of a non-negative integer
NumberToString(n) ==
  IF n < 10 THEN <<DigitChar(n)>>
  ELSE NumberToString(n \div 10) \o <<DigitChar(n % 10)>>

\* `${width}x${height}`
SizeString(width, height) == NumberToString(width) \o <<"x">> \o NumberToString(height)

(***************************************************************************)
(* parseSize                                                               *)
(***************************************************************************)
NoMatch == [matched |-> FALSE, g1 |-> <<>>, g2 |-> <<>>]

RECURSIVE DigitRunEnd(_, _)
\* \d+ is greedy: the index just after the digits of s that start at i
DigitRunEnd(s, i) ==
  IF i <= Len(s) /\ s[i] \in Digit THEN DigitRunEnd(s, i + 1) ELSE i

\* the pattern with the i flag: 'X' separates as well
GroupsIgnoreCase(s, e1, e2) ==
  IF /\ e1 > 1
     /\ e1 <= Len(s)
     /\ s[e1] \in {"x", "X"}
     /\ e2 > e1 + 1
     /\ e2 = Len(s) + 1
  THEN [matched |-> TRUE, g1 |-> SubSeq(s, 1, e1 - 1), g2 |-> SubSeq(s, e1 + 1, Len(s))]
  ELSE NoMatch

\* /^(\d+)x(\d+)$/ once the two digit runs are read: the first run ends
\* before e1, the second before e2
Groups(s, e1, e2) ==
  IF /\ e1 > 1
     /\ e1 <= Len(s)
     /\ s[e1] = "x"
     /\ e2 > e1 + 1
     /\ e2 = Len(s) + 1
  THEN [matched |-> TRUE, g1 |-> SubSeq(s, 1, e1 - 1), g2 |-> SubSeq(s, e1 + 1, Len(s))]
  ELSE NoMatch

\* s.match(/^(\d+)x(\d+)$/): the two captured groups
RegExpSize(s) == Groups(s, DigitRunEnd(s, 1), DigitRunEnd(s, DigitRunEnd(s, 1) + 1))

\* { width: parseInt(match[1], 10), height: parseInt(match[2], 10) }
SizeOfMatch(match) ==
  IF ~match.matched THEN null
  ELSE [width |-> parseInt(match.g1), height |-> parseInt(match.g2)]

parseSize(sizeString) ==
  IF ~Truthy(sizeString) \/ sizeString.t # "string" THEN null
  ELSE SizeOfMatch(RegExpSize(sizeString.v))

(***************************************************************************)
(* Size predicates of the matcher.  The code compares in floating point;   *)
(* the comparisons are taken here in exact arithmetic, cross-multiplied.   *)
(* A tolerance given as a fraction (0.15, 0.1) is the record               *)
(* [num, den].                                                             *)
(***************************************************************************)
Abs(n) == IF n < 0 THEN -n ELSE n

Max(a, b) == IF a >= b THEN a ELSE b

Fraction(num, den) == [num |-> num, den |-> den]

\* widthDiff <= Math.max(w1, w2) * (tolerancePercent / 100), and the same for heights
sizesMatchWithTolerance(size1, size2, tolerancePercent) ==
  LET widthDiff == Abs(size1.width - size2.width)
      heightDiff == Abs(size1.height - size2.height)
  IN  /\ widthDiff * 100 <= Max(size1.width, size2.width) * tolerancePercent
      /\ heightDiff * 100 <= Max(size1.height, size2.height) * tolerancePercent

\* Math.abs(ratio1 - ratio2) / Math.max(ratio1, ratio2) <= tolerance.
\* A zero height makes a ratio Infinity or NaN and two zero widths make the
\* quotient 0/0: the comparison with NaN is false.
aspectRatiosMatch(size1, size2, tolerance) ==
  LET cross1 == size1.width * size2.height   \* ratio1 * height1 * height2
      cross2 == size2.width * size1.height   \* ratio2 * height1 * height2
  IN  /\ size1.height # 0
      /\ size2.height # 0
      /\ Max(cross1, cross2) # 0
      /\ Abs(cross1 - cross2) * tolerance.den <= tolerance.num * Max(cross1, cross2)

(***************************************************************************)
(* The size tables of adDetection.js                                       *)
(***************************************************************************)
\* Object.keys(IAB_SIZES), in insertion order
IAB_SIZES ==
  << <<"3","0","0","x","2","5","0">>, <<"7","2","8","x","9","0">>,
     <<"3","0","0","x","6","0","0">>, <<"3","2","0","x","5","0">>,
     <<"3","2","0","x","1","0","0">>, <<"1","6","0","x","6","0","0">>,
     <<"9","7","0","x","2","5","0">>, <<"9","7","0","x","9","0">> >>

RECURSIVE SplitX(_, _)
\* s.split('x'), cur being the piece read so far
SplitX(s, cur) ==
  IF s = <<>> THEN <<cur>>
  ELSE IF Head(s) = "x" THEN <<cur>> \o SplitX(Tail(s), <<>>)
  ELSE SplitX(Tail(s), Append(cur, Head(s)))

\* Number(piece) of a run of decimal digits
Number(piece) == parseInt(piece)

\* Math.abs(width - iabWidth) <= tolerance && Math.abs(height - iabHeight) <= tolerance
WithinPixels(width, height, pieces, tolerance) ==
  /\ Abs(width - Number(pieces[1])) <= tolerance
  /\ Abs(height - Number(pieces[2])) <= tolerance

RECURSIVE IABScan(_, _, _, _)
IABScan(k, width, height, tolerance) ==
  IF k > Len(IAB_SIZES) THEN null
  ELSE IF WithinPixels(width, height, SplitX(IAB_SIZES[k], <<>>), tolerance)
  THEN Str(IAB_SIZES[k])
  ELSE IABScan(k + 1, width, height, tolerance)

\* the first table key within tolerance pixels in both dimensions, or null
matchIABSize(width, height, tolerance) == IABScan(1, width, height, tolerance)

\* Object.entries(VIDEO_ASPECT_RATIOS): name and target ratio num / den
VIDEO_ASPECT_RATIOS ==
  << [name |-> "16:9", num |-> 16, den |-> 9],
     [name |-> "4:3", num |-> 4, den |-> 3],
     [name |-> "21:9", num |-> 21, den |-> 9] >>

RECURSIVE AspectScan(_, _, _, _)
AspectScan(k, width, height, tolerance) ==
  IF k > Len(VIDEO_ASPECT_RATIOS) THEN "null"
  ELSE LET target == VIDEO_ASPECT_RATIOS[k]
       IN  \* Math.abs(width / height - num / den) <= tolerance
           IF Abs(width * target.den - target.num * height) * tolerance.den
                <= tolerance.num * target.den * height
           THEN target.name
           ELSE AspectScan(k + 1, width, height, tolerance)

\* the name of the first ratio within tolerance, or "null"
matchVideoAspectRatio(width, height, tolerance) ==
  IF width = 0 \/ height = 0 THEN "null"
  ELSE AspectScan(1, width, height, tolerance)

(***************************************************************************)
(* Array.prototype.sort with a comparator, as Node's V8 runs it on an      *)
(* array shorter than 64 elements: one run is counted (and reversed when   *)
(* strictly descending), the rest is placed by binary insertion.  With a   *)
(* consistent comparator this is the stable sort; with the clientAds       *)
(* comparator, which answers 0 for an unparseable size, the result is      *)
(* whatever these comparisons produce.                                     *)
(***************************************************************************)
\* if (!sizeA || !sizeB) return 0; return areaB - areaA
CompareSizes(sizeA, sizeB) ==
  IF sizeA = null \/ sizeB = null THEN 0
  ELSE (sizeB.width * sizeB.height) - (sizeA.width * sizeA.height)

\* (a, b) => { const sizeA = parseSize(a.size); const sizeB = parseSize(b.size); ... }
CompareClientAds(a, b) == CompareSizes(parseSize(a.size), parseSize(b.size))

\* (a, b) => (b.size.width * b.size.height) - (a.size.width * a.size.height)
ComparePlacements(a, b) ==
  (b.size.width * b.size.height) - (a.size.width * a.size.height)

Compare(by, a, b) ==
  IF by = "clientAds" THEN CompareClientAds(a, b) ELSE ComparePlacements(a, b)

RECURSIVE Reverse(_)
Reverse(a) == IF a = <<>> THEN <<>> ELSE Append(Reverse(Tail(a)), Head(a))

\* the run stops at the first pair that breaks the order of the first pair
EndsRun(isDescending, order) ==
  (isDescending /\ order >= 0) \/ (~isDescending /\ order < 0)

RECURSIVE RunLength(_, _, _, _)
\* the run a[1..idx-1] is extended while the order of the first pair continues
RunLength(by, a, idx, isDescending) ==
  IF idx > Len(a) THEN idx - 1
  ELSE IF EndsRun(isDescending, Compare(by, a[idx], a[idx - 1])) THEN idx - 1
  ELSE RunLength(by, a, idx + 1, isDescending)

\* a strictly descending run is reversed in place
ReverseRun(a, runLength, isDescending) ==
  [ array |-> IF isDescending
              THEN Reverse(SubSeq(a, 1, runLength)) \o SubSeq(a, runLength + 1, Len(a))
              ELSE a,
    runLength |-> runLength ]

CountRun(by, a, isDescending) ==
  ReverseRun(a, RunLength(by, a, 3, isDescending), isDescending)

CountAndMakeRun(by, a) == CountRun(by, a, Compare(by, a[2], a[1]) < 0)

RECURSIVE FindInsertionPoint(_, _, _, _, _)
FindInsertionPoint(by, a, pivot, left, right) ==
  IF left >= right THEN left
  ELSE IF Compare(by, pivot, a[left + ((right - left) \div 2)]) < 0
  THEN FindInsertionPoint(by, a, pivot, left, left + ((right - left) \div 2))
  ELSE FindInsertionPoint(by, a, pivot, left + ((right - left) \div 2) + 1, right)

\* a[start] is moved to index left, the elements between shift up by one
MoveTo(a, start, left) ==
  SubSeq(a, 1, left - 1) \o <<a[start]>> \o SubSeq(a, left, start - 1)
    \o SubSeq(a, start + 1, Len(a))

RECURSIVE BinaryInsertionSort(_, _, _)
BinaryInsertionSort(by, a, start) ==
  IF start > Len(a) THEN a
  ELSE BinaryInsertionSort(by,
         MoveTo(a, start, FindInsertionPoint(by, a, a[start], 1, start)),
         start + 1)

SortRun(by, run) == BinaryInsertionSort(by, run.array, run.runLength + 1)

ArraySort(by, array) ==
  IF Len(array) < 2 THEN array ELSE SortRun(by, CountAndMakeRun(by, array))

\* the copy is left in input order
UnsortedPlacements(list) == list

\* [...placements].sort(...)
SortPlacements(list) == ArraySort("placements", list)

\* [...clientAds].sort(...)
SortClientAds(list) == ArraySort("clientAds", list)

RECURSIVE Filter(_, _)
\* array.filter(x => Keep(x)) for the predicates used below, named by tag
Keep(tag, x) ==
  CASE tag = "videoPlacement" -> x.type = "video"
    [] tag = "regularPlacement" -> x.type # "video"
    [] tag = "videoAd" -> x.type = "video"
    [] tag = "regularAd" -> x.type # "video"
    [] tag = "hasUrl" -> x.url \notin {"<undefined>", "", " "}

Filter(tag, array) ==
  IF array = <<>> THEN <<>>
  ELSE IF Keep(tag, Head(array)) THEN <<Head(array)>> \o Filter(tag, Tail(array))
  ELSE Filter(tag, Tail(array))

(***************************************************************************)
(* matchAdsToplacements                                                    *)
(*                                                                         *)
(* A placement is [ref, selector, size, sizeString, type, subtype], a     *)
(* creative                                                                *)
(* [ref, url, size, type, originalUrl, dv360Creative]; ref stands for the  *)
(* identity of the JavaScript object.  A match is                          *)
(* [placement, clientAd, matchType, isVideo]; a field the code leaves      *)
(* out is "undefined" (matchType of a video match) or FALSE (isVideo).     *)
(***************************************************************************)
\* the placement is not recorded as used
PlacementNotMarked(used, placement) == used

\* usedPlacements.add(placement.selector)
MarkPlacementUsed(used, placement) == used \cup {placement.selector}

\* usedClientAds.add(clientAd.url)
MarkClientAdUsed(used, clientAd) == used \cup {clientAd.url}

IsExactMatch(placementSize, targetSize) ==
  /\ placementSize.width = targetSize.width
  /\ placementSize.height = targetSize.height

\* the pixel tolerance widened to 50
IabMatchWide(placement, clientAd) ==
  matchIABSize(placement.size.width, placement.size.height, 50) = clientAd.size

\* the pixel tolerance left at matchIABSize's default of 5
IabMatchDefault(placement, clientAd) ==
  matchIABSize(placement.size.width, placement.size.height, 5) = clientAd.size

\* iabMatch === clientAd.size
IabMatch(placement, clientAd) ==
  matchIABSize(placement.size.width, placement.size.height, 20) = clientAd.size

\* toleranceMatch && ratioMatch
FlexibleMatch(placementSize, targetSize) ==
  /\ sizesMatchWithTolerance(placementSize, targetSize, 15)
  /\ aspectRatiosMatch(placementSize, targetSize, Fraction(15, 100))

\* the condition under which a pass pushes the pair
TierMatch(tier, placement, clientAd) ==
  CASE tier = "exact" -> IsExactMatch(placement.size, parseSize(clientAd.size))
    [] tier = "iab-tolerance" -> IabMatch(placement, clientAd)
    [] tier = "flexible-tolerance" -> FlexibleMatch(placement.size, parseSize(clientAd.size))

\* the least index of a set of indices (0: the set is empty)
Lowest(indices) ==
  IF indices = {} THEN 0 ELSE CHOOSE j \in indices : \A k \in indices : j <= k

\* the inner loop gives up at the first unused placement, fitting or not
FirstUnused(tier, clientAd, sortedPlacements, usedPlacements) ==
  Lowest({j \in 1..Len(sortedPlacements) :
            /\ sortedPlacements[j].selector \notin usedPlacements
            /\ \A k \in 1..(j - 1) : sortedPlacements[k].selector \in usedPlacements
            /\ TierMatch(tier, sortedPlacements[j], clientAd)})

\* the inner loop: the first placement, in sorted order, that is unused and
\* passes the tier's test (0: none)
FirstFit(tier, clientAd, sortedPlacements, usedPlacements) ==
  Lowest({j \in 1..Len(sortedPlacements) :
            /\ sortedPlacements[j].selector \notin usedPlacements
            /\ TierMatch(tier, sortedPlacements[j], clientAd)})

\* matches.push({ placement, clientAd, matchType }); both are marked used; break
PushMatch(tier, clientAd, sortedPlacements, j, st) ==
  IF j = 0 THEN st
  ELSE [ matches |-> Append(st.matches,
                       [ placement |-> sortedPlacements[j],
                         clientAd |-> clientAd,
                         matchType |-> tier,
                         isVideo |-> FALSE ]),
         usedPlacements |-> MarkPlacementUsed(st.usedPlacements, sortedPlacements[j]),
         usedClientAds |-> MarkClientAdUsed(st.usedClientAds, clientAd) ]

\* the body of a pass's outer loop for one creative
TryClientAd(tier, clientAd, sortedPlacements, st) ==
  IF clientAd.url \in st.usedClientAds \/ parseSize(clientAd.size) = null THEN st
  ELSE PushMatch(tier, clientAd, sortedPlacements,
                 FirstFit(tier, clientAd, sortedPlacements, st.usedPlacements), st)

RECURSIVE RunPass(_, _, _, _, _)
\* one pass over sortedClientAds from index i; st is
\* [matches, usedPlacements, usedClientAds]
RunPass(tier, i, sortedClientAds, sortedPlacements, st) ==
  IF i > Len(sortedClientAds) THEN st
  ELSE RunPass(tier, i + 1, sortedClientAds, sortedPlacements,
               TryClientAd(tier, sortedClientAds[i], sortedPlacements, st))

\* Pass 1, Pass 2, Pass 3
ThreePasses(sortedClientAds, sortedPlacements) ==
  RunPass("flexible-tolerance", 1, sortedClientAds, sortedPlacements,
    RunPass("iab-tolerance", 1, sortedClientAds, sortedPlacements,
      RunPass("exact", 1, sortedClientAds, sortedPlacements,
        [matches |-> <<>>, usedPlacements |-> {}, usedClientAds |-> {}])))

\* the logging loop reads clientAd.url.substring(0, 50) of every creative
\* left unused, which throws a TypeError when the url is missing
LogUnmatched(sortedClientAds, st) ==
  IF \E i \in 1..Len(sortedClientAds) :
       /\ sortedClientAds[i].url \notin st.usedClientAds
       /\ sortedClientAds[i].url = "<undefined>"
  THEN [threw |-> TRUE, matches |-> <<>>]
  ELSE [threw |-> FALSE, matches |-> st.matches]

MatchSorted(sortedClientAds, sortedPlacements) ==
  LogUnmatched(sortedClientAds, ThreePasses(sortedClientAds, sortedPlacements))

\* a placement without a size object makes the call throw a TypeError where
\* its size is first read: the comparator of the placements sort reads
\* b.size.width and a.size.width of every element of an array of two or
\* more, and Pass 1 reads placementSize.width of the first placement for
\* the first creative whose size parses
ReadsMissingSize(placementList, clientAdList) ==
  /\ \E i \in 1..Len(placementList) : placementList[i].size = undefined
  /\ \/ Len(placementList) >= 2
     \/ \E j \in 1..Len(clientAdList) : parseSize(clientAdList[j].size) # null

\* [threw, matches]
matchAdsToplacements(placementList, clientAdList) ==
  IF ReadsMissingSize(placementList, clientAdList) THEN [threw |-> TRUE, matches |-> <<>>]
  ELSE MatchSorted(SortClientAds(clientAdList), SortPlacements(placementList))

(***************************************************************************)
(* matchVideoAdsToplacements                                               *)
(***************************************************************************)
\* only a 16:9 placement is taken
VideoEligibleRatioOnly(placement) ==
  matchVideoAspectRatio(placement.size.width, placement.size.height, Fraction(1, 10)) = "16:9"

\* aspectRatio === '16:9' || subtype === 'native' || subtype === 'iframe'
VideoEligible(placement) ==
  \/ matchVideoAspectRatio(placement.size.width, placement.size.height, Fraction(1, 10)) = "16:9"
  \/ placement.subtype = "native"
  \/ placement.subtype = "iframe"

\* the inner loop: the first placement, in sorted order, that is unused and eligible
FirstEligible(sortedPlacements, usedPlacements) ==
  Lowest({j \in 1..Len(sortedPlacements) :
            /\ sortedPlacements[j].selector \notin usedPlacements
            /\ VideoEligible(sortedPlacements[j])})

\* matches.push({ placement, clientAd: videoAd, isVideo: true }); break
PushVideoMatch(videoAd, sortedPlacements, j, st) ==
  IF j = 0 THEN st
  ELSE [ matches |-> Append(st.matches,
                       [ placement |-> sortedPlacements[j],
                         clientAd |-> videoAd,
                         matchType |-> "undefined",
                         isVideo |-> TRUE ]),
         usedPlacements |-> MarkPlacementUsed(st.usedPlacements, sortedPlacements[j]) ]

RECURSIVE VideoLoop(_, _, _, _)
\* the loop over videoAds from index i; st is [matches, usedPlacements]
VideoLoop(i, videoAds, sortedPlacements, st) ==
  IF i > Len(videoAds) THEN st
  ELSE VideoLoop(i + 1, videoAds, sortedPlacements,
                 PushVideoMatch(videoAds[i], sortedPlacements,
                                FirstEligible(sortedPlacements, st.usedPlacements), st))

matchVideoAdsToplacements(placementList, videoAds) ==
  VideoLoop(1, videoAds, SortPlacements(Filter("videoPlacement", placementList)),
            [matches |-> <<>>, usedPlacements |-> {}]).matches

(***************************************************************************)
(* Inputs of the parseSize specification                                   *)
(***************************************************************************)
MaxSizeLen == 4

SizeAlphabet == {"0", "2", "3", "5", "x", "X", "-", " "}

BoundedStrings == UNION {[1..n -> SizeAlphabet] : n \in 0..MaxSizeLen}

\* the inputs of tests/adReplacement.test.js
TestedSizeInputs ==
  { Str(<<"3","0","0","x","2","5","0">>), Str(<<"7","2","8","x","9","0">>),
    Str(<<"1","9","2","0","x","1","0","8","0">>),
    Str(<<"3","0","0","-","2","5","0">>), Str(<<"3","0","0"," ","x"," ","2","5","0">>),
    Str(<<"3","0","0","X","2","5","0">>), Str(<<"x","2","5","0">>), Str(<<"3","0","0","x">>),
    Str(<<"a","b","c","x","d","e","f">>), Str(<<"3","0","0","x","a","b","c">>),
    Str(<<>>), null, undefined, Num(<<"1","2","3">>), Num(<<"0">>), Obj }

SizeInputs == {Str(s) : s \in BoundedStrings} \cup TestedSizeInputs

(***************************************************************************)
(* Inputs of the matcher specifications                                    *)
(***************************************************************************)
MaxPlacements == 2

MaxClientAds == 3

MaxOffset == 21

Size(width, height) == [width |-> width, height |-> height]

\* a placement as detection describes it, before it is given its identity
Slot(selector, width, height, type, subtype) ==
  [selector |-> selector, size |-> Size(width, height), type |-> type, subtype |-> subtype]

\* a creative as the request gives it
Creative(url, size, type) == [url |-> url, size |-> size, type |-> type]

\* the arrays' elements become objects: ref is the object's identity
PlacementObjects(list) ==
  [i \in 1..Len(list) |->
     [ ref |-> i, selector |-> list[i].selector, size |-> list[i].size,
       sizeString |-> Str(SizeString(list[i].size.width, list[i].size.height)),
       type |-> list[i].type, subtype |-> list[i].subtype ]]

ClientAdObjects(list) ==
  [i \in 1..Len(list) |->
     [ ref |-> i, url |-> list[i].url, size |-> list[i].size, type |-> list[i].type,
       originalUrl |-> "<undefined>", dv360Creative |-> "none" ]]

\* the lists of at most n different elements of pool
ListsOf(pool, n) ==
  {list \in UNION {[1..k -> pool] : k \in 0..n} :
     \A i, j \in 1..Len(list) : i # j => list[i] # list[j]}

\* display placements: two of one size, one within the IAB tolerance of
\* 300x250, one within the flexible tolerance only, and one that shares
\* another's selector
DisplaySlots ==
  { Slot("#ad-1", 300, 250, "iframe", "-"),
    Slot("#ad-2", 300, 250, "iframe", "-"),
    Slot("#ad-3", 302, 248, "css", "-"),
    Slot(".ad-banner", 330, 270, "css", "-"),
    Slot("#ad-1", 320, 50, "css", "-") }

\* display creatives: two of one size, two that share a URL, one whose size
\* does not parse and one without a url
DisplayCreatives ==
  { Creative("a.jpg", Str(SizeString(300, 250)), "display"),
    Creative("b.jpg", Str(SizeString(300, 250)), "display"),
    Creative("c.jpg", Str(SizeString(302, 248)), "display"),
    Creative("a.jpg", Str(SizeString(330, 270)), "display"),
    Creative("d.jpg", Str(<<"3","0","0","X","2","5","0">>), "display"),
    Creative("<undefined>", Str(SizeString(300, 250)), "display") }

\* video placements of each subtype, a container that is not 16:9, two that
\* share the selector built from their first class, and a placement that is
\* no video placement
VideoSlots ==
  { Slot("#vid", 640, 360, "video", "container"),
    Slot(".player", 300, 250, "video", "native"),
    Slot(".player", 400, 300, "video", "container"),
    Slot("iframe:nth-of-type(1)", 500, 500, "video", "iframe"),
    Slot("#ad-1", 640, 360, "css", "-") }

VideoCreatives ==
  { Creative("v.mp4", undefined, "video"),
    Creative("w.jpg", undefined, "video"),
    Creative("v.mp4", Str(SizeString(300, 250)), "video") }

NoResults == [successful |-> <<>>, failed |-> <<>>]

\* nothing has been asked of the page yet
NoLookup ==
  [ evaluate |-> "none", primary |-> "none", fallback |-> "none", rect |-> Size(0, 0),
    element |-> "none", dom |-> "none" ]

InitParse ==
  /\ pc = "parseSize"
  /\ sizeInput \in SizeInputs
  /\ parsed = null
  /\ placements = <<>>
  /\ clientAds = <<>>
  /\ matches = <<>>
  /\ results = NoResults
  /\ cursor = 0
  /\ lookup = NoLookup
  /\ page = <<>>
  /\ ServicesIdle

ParseSizeCall ==
  /\ pc = "parseSize"
  /\ parsed' = parseSize(sizeInput)
  /\ pc' = "parsed"
  /\ UNCHANGED <<sizeInput, placements, clientAds, matches, results, cursor, lookup, page, serviceVars>>

(***************************************************************************)
(* The matcher called on its own: matchAdsToplacements(placements,         *)
(* clientAds) and matchVideoAdsToplacements(placements, clientAds)         *)
(***************************************************************************)
InitMatch ==
  /\ pc = "matchAds"
  /\ sizeInput = null
  /\ parsed = null
  /\ placements \in {PlacementObjects(l) : l \in ListsOf(DisplaySlots, MaxPlacements)}
  /\ clientAds \in {ClientAdObjects(l) : l \in ListsOf(DisplayCreatives, MaxClientAds)}
  /\ matches = <<>>
  /\ results = NoResults
  /\ cursor = 0
  /\ lookup = NoLookup
  /\ page = <<>>
  /\ ServicesIdle

\* one creative of a standard size and one placement around that size
InitTolerance ==
  /\ pc = "matchAds"
  /\ sizeInput = null
  /\ parsed = null
  /\ \E k \in 1..Len(IAB_SIZES), dx \in (-MaxOffset)..MaxOffset, dy \in (-MaxOffset)..MaxOffset :
       LET standard == parseSize(Str(IAB_SIZES[k]))
       IN  /\ placements = PlacementObjects(
                 <<Slot("#ad-1", standard.width + dx, standard.height + dy, "css", "-")>>)
           /\ clientAds = ClientAdObjects(<<Creative("a.jpg", Str(IAB_SIZES[k]), "display")>>)
  /\ matches = <<>>
  /\ results = NoResults
  /\ cursor = 0
  /\ lookup = NoLookup
  /\ page = <<>>
  /\ ServicesIdle

InitVideo ==
  /\ pc = "matchVideo"
  /\ sizeInput = null
  /\ parsed = null
  /\ placements \in {PlacementObjects(l) : l \in ListsOf(VideoSlots, MaxPlacements)}
  /\ clientAds \in {ClientAdObjects(l) : l \in ListsOf(VideoCreatives, MaxClientAds)}
  /\ matches = <<>>
  /\ results = NoResults
  /\ cursor = 0
  /\ lookup = NoLookup
  /\ page = <<>>
  /\ ServicesIdle

MatchAdsCall ==
  /\ pc = "matchAds"
  /\ LET r == matchAdsToplacements(placements, clientAds)
     IN  /\ matches' = r.matches
         /\ pc' = IF r.threw THEN "threw" ELSE "matched"
  /\ UNCHANGED <<sizeInput, parsed, placements, clientAds, results, cursor, lookup, page, serviceVars>>

MatchVideoCall ==
  /\ pc = "matchVideo"
  /\ matches' = matchVideoAdsToplacements(placements, clientAds)
  /\ pc' = "matched"
  /\ UNCHANGED <<sizeInput, parsed, placements, clientAds, results, cursor, lookup, page, serviceVars>>

NextMatch == MatchAdsCall

NextVideo == MatchVideoCall

SpecMatch == InitMatch /\ [][NextMatch]_vars

SpecTolerance == InitTolerance /\ [][NextMatch]_vars

SpecVideo == InitVideo /\ [][NextVideo]_vars

NextParse == ParseSizeCall

SpecParse == InitParse /\ [][NextParse]_vars

(***************************************************************************)
(* preprocessClientAds.  What the browser and the preview page do is the   *)
(* environment's choice: each extraction names the step that fails (or     *)
(* "none"), what page.evaluate finds and whether page.close() rejects.     *)
(***************************************************************************)
\* the URLs of the model that are displayvideo.google.com/doubleclick/preview pages
PreviewUrls ==
  { "https://displayvideo.google.com/doubleclick/preview/1",
    "https://displayvideo.google.com/doubleclick/preview/2" }

isDV360PreviewUrl(url) == url \in PreviewUrls

\* extractDV360CreativeHTML(ad.url, adId): "rejects", "null", or the type of
\* the creative found.  getBrowser() is awaited before the try; a failure of
\* browser.newPage() is caught with page still null; every later failure is
\* caught and then the finally block awaits page.close().
extractDV360CreativeHTML(answer) ==
  IF answer.fails = "getBrowser" THEN "rejects"
  ELSE IF answer.fails = "newPage" THEN "null"
  ELSE IF answer.close = "rejects" THEN "rejects"
  ELSE IF answer.fails # "none" THEN "null"
  ELSE answer.creative

\* extractDV360Creative(ad.url, adId): "rejects", "null" or "path".
\* ensureTempDir() and getBrowser() come before the try.
extractDV360Creative(answer) ==
  IF answer.fails \in {"ensureTempDir", "getBrowser"} THEN "rejects"
  ELSE IF answer.fails = "newPage" THEN "null"
  ELSE IF answer.close = "rejects" THEN "rejects"
  ELSE IF answer.fails # "none" THEN "null"
  ELSE "path"

\* fileToBase64DataUrl(screenshotPath)
DataUrl == "data:image/png;base64"

fileToBase64DataUrl(file) == IF file = "unreadable" THEN "null" ELSE DataUrl

PreprocessOutcomes == {"iframe-src", "html", "screenshot", "none", "rejects"}

\* lines 420-449: the screenshot fallback
ScreenshotFallback(screenshotPath, dataUrl) ==
  IF screenshotPath = "rejects" THEN "rejects"
  ELSE IF screenshotPath = "null" \/ dataUrl = "null" THEN "none"
  ELSE "screenshot"

\* lines 403-449: how one turn for a preview URL ends, a member of PreprocessOutcomes
TurnOutcome(answer) ==
  IF extractDV360CreativeHTML(answer.html) # "null"
  THEN extractDV360CreativeHTML(answer.html)
  ELSE ScreenshotFallback(extractDV360Creative(answer.screenshot),
                          fileToBase64DataUrl(answer.file))

\* one turn of the loop: the element pushed to processedAds
Preprocessed(ad, outcome) ==
  IF ~isDV360PreviewUrl(ad.url) \/ outcome = "none" THEN ad
  ELSE IF outcome = "screenshot"
  THEN [ad EXCEPT !.originalUrl = ad.url, !.url = DataUrl]
  ELSE [ad EXCEPT !.originalUrl = ad.url, !.dv360Creative = outcome]

\* the whole call: it rejects with the first turn that rejects
preprocessClientAds(clientAdList, outcomes) ==
  [ rejected |-> \E i \in 1..Len(clientAdList) : outcomes[i] = "rejects",
    processedAds |->
      [i \in 1..Len(clientAdList) |-> Preprocessed(clientAdList[i], outcomes[i])] ]

\* the outcomes the environment can give for a list: only a preview URL is resolved
OutcomesFor(clientAdList) ==
  {outcomes \in [1..Len(clientAdList) -> PreprocessOutcomes] :
     \A i \in 1..Len(clientAdList) :
       ~isDV360PreviewUrl(clientAdList[i].url) => outcomes[i] = "none"}

Extraction(fails, creative, close) ==
  [fails |-> fails, creative |-> creative, close |-> close]

\* an extraction that was not started
NoExtraction == Extraction("none", "null", "ok")

TurnAnswer(html, screenshot, file) ==
  [html |-> html, screenshot |-> screenshot, file |-> file]

\* what a started extraction can meet: a step that throws before a page
\* exists; a later step that throws, or none, and page.close() resolving or
\* rejecting.  page.evaluate's value is read only when no step throws.
Extractions(earlySteps, lateSteps, creatives) ==
  {Extraction(step, "null", "ok") : step \in earlySteps}
    \cup {Extraction(step, "null", close) : step \in lateSteps, close \in {"ok", "rejects"}}
    \cup {Extraction("none", creative, close) :
            creative \in creatives, close \in {"ok", "rejects"}}

HtmlExtractions ==
  Extractions({"getBrowser", "newPage"}, {"setViewport", "goto", "evaluate"},
              {"iframe-src", "html", "null"})

ScreenshotExtractions ==
  Extractions({"ensureTempDir", "getBrowser", "newPage"}, {"goto", "evaluate", "screenshot"},
              {"bounds"})

\* the answers of one turn: the screenshot extraction is started only when
\* the HTML extraction gave null, the file is read only when there is a path
TurnAnswers(ad) ==
  IF ~isDV360PreviewUrl(ad.url) THEN {TurnAnswer(NoExtraction, NoExtraction, "unread")}
  ELSE {TurnAnswer(html, NoExtraction, "unread") :
          html \in {h \in HtmlExtractions : extractDV360CreativeHTML(h) # "null"}}
    \cup {TurnAnswer(html, screenshot, "unread") :
            html \in {h \in HtmlExtractions : extractDV360CreativeHTML(h) = "null"},
            screenshot \in {e \in ScreenshotExtractions : extractDV360Creative(e) # "path"}}
    \cup {TurnAnswer(html, screenshot, file) :
            html \in {h \in HtmlExtractions : extractDV360CreativeHTML(h) = "null"},
            screenshot \in {e \in ScreenshotExtractions : extractDV360Creative(e) = "path"},
            file \in {"readable", "unreadable"}}

MaxPreviewAds == 2

\* creatives handed to preprocessClientAds: an image and two preview pages
PreviewCreatives ==
  { Creative("a.jpg", Str(SizeString(300, 250)), "display"),
    Creative("https://displayvideo.google.com/doubleclick/preview/1",
             Str(SizeString(300, 250)), "display"),
    Creative("https://displayvideo.google.com/doubleclick/preview/2",
             Str(SizeString(728, 90)), "display") }

(***************************************************************************)
(* replaceAds: one turn of its loop.  The page's part (does the selector   *)
(* resolve, does the class-substring query resolve, the element's box,     *)
(* does a DOM call throw, does page.evaluate reject) is the environment's  *)
(* choice, an answer [evaluate, primary, fallback, rect, dom].             *)
(***************************************************************************)
\* the selectors of the model for which selector.startsWith('.')
DotSelectors == {".ad-banner", ".player"}

\* the URLs of the model that end in an image extension or start with data:image/
ImageUrls == {"a.jpg", "w.jpg", DataUrl}

isImageUrl(adUrl) == adUrl \in ImageUrls

\* a || b on two strings of the model
OrElse(a, b) == IF a \notin {"<undefined>", ""} THEN a ELSE b

\* the element the lookup ends with: document.querySelector(selector), then
\* for a selector that starts with '.' the query [class*="className"].  The
\* 'data-ad-position' retry repeats the first query and finds what it found.
ElementFound(selector, answer) ==
  \/ answer.primary = "found"
  \/ selector \in DotSelectors /\ answer.fallback = "found"

\* targetSize.width || Math.round(rect.width), and so for the height
ActualSize(targetSize, rect) ==
  [ width |-> IF targetSize.width # 0 THEN targetSize.width ELSE rect.width,
    height |-> IF targetSize.height # 0 THEN targetSize.height ELSE rect.height ]

Failure(error) ==
  [ success |-> FALSE, error |-> error, renderedSize |-> Size(0, 0),
    isVideo |-> FALSE, isDV360HTML |-> FALSE, dv360Type |-> "undefined" ]

Success(actual, isVideo, dv360Type) ==
  [ success |-> TRUE, error |-> "undefined", renderedSize |-> actual,
    isVideo |-> isVideo, isDV360HTML |-> dv360Type # "undefined", dv360Type |-> dv360Type ]

\* the branches after the lookup: the size lock, then the injection
Inject(match, actual, answer) ==
  IF actual.width < 50 \/ actual.height < 50 THEN Failure("Element too small")
  ELSE IF answer.dom = "throws" THEN Failure("err.message")
  ELSE IF match.clientAd.dv360Creative # "none"
  THEN Success(actual, FALSE, match.clientAd.dv360Creative)
  ELSE IF match.isVideo \/ match.placement.type = "video"
  THEN Success(actual, TRUE, "undefined")
  ELSE Success(actual, FALSE, "undefined")

\* the value page.evaluate resolves with
Replaced(match, answer) ==
  IF ~ElementFound(match.placement.selector, answer) THEN Failure("Element not found")
  ELSE Inject(match, ActualSize(match.placement.size, answer.rect), answer)

\* results.successful.push(resultEntry)
SuccessfulEntry(match, replaced) ==
  [ selector |-> match.placement.selector,
    originalPlacementSize |-> match.placement.sizeString,
    renderedSize |-> Str(SizeString(replaced.renderedSize.width, replaced.renderedSize.height)),
    clientAdSize |-> match.clientAd.size,
    url |-> OrElse(match.clientAd.originalUrl, match.clientAd.url),
    type |-> IF match.isVideo THEN "video" ELSE match.placement.type,
    isVideo |-> replaced.isVideo,
    isDV360HTML |-> replaced.isDV360HTML,
    dv360Type |-> replaced.dv360Type ]

\* results.failed.push({ selector, size, url, error })
FailedEntry(match, error) ==
  [ selector |-> match.placement.selector,
    size |-> IF Truthy(match.clientAd.size) THEN match.clientAd.size
             ELSE match.placement.sizeString,
    url |-> OrElse(match.clientAd.originalUrl, match.clientAd.url),
    error |-> error ]

\* if (replaced.success) ... else ...
Recorded(res, match, replaced) ==
  IF replaced.success
  THEN [res EXCEPT !.successful = Append(@, SuccessfulEntry(match, replaced))]
  ELSE [res EXCEPT !.failed = Append(@, FailedEntry(match, replaced.error))]

\* without the catch a rejected page.evaluate leaves no entry
AfterMatchNoCatch(res, match, answer) ==
  IF answer.evaluate = "rejects" THEN res
  ELSE Recorded(res, match, Replaced(match, answer))

\* try { ... } catch (error) { results.failed.push(... error.message) }
AfterMatch(res, match, answer) ==
  IF answer.evaluate = "rejects"
  THEN [res EXCEPT !.failed = Append(@, FailedEntry(match, "error.message"))]
  ELSE Recorded(res, match, Replaced(match, answer))

Answer(evaluate, primary, fallback, rect, element, dom) ==
  [ evaluate |-> evaluate, primary |-> primary, fallback |-> fallback, rect |-> rect,
    element |-> element, dom |-> dom ]

\* the boxes getBoundingClientRect gives, read only when the detected size has a 0
Rects(targetSize) ==
  IF targetSize.width = 0 \/ targetSize.height = 0
  THEN {Size(0, 0), Size(300, 250)}
  ELSE {Size(0, 0)}

\* what the element is, read only on the path that sets an iframe's src:
\* an IFRAME, an element around an iframe, or another element
Elements(match) ==
  IF /\ match.placement.type = "iframe"
     /\ ~match.isVideo
     /\ match.clientAd.dv360Creative = "none"
     /\ ~isImageUrl(match.clientAd.url)
  THEN {"IFRAME", "wraps-iframe", "other"}
  ELSE {"other"}

\* the answers in which the lookup ends with an element
FoundAnswers(match, primary, fallback) ==
  {Answer("returns", primary, fallback, rect, element, dom) :
     rect \in Rects(match.placement.size),
     element \in Elements(match),
     dom \in {"ok", "throws"}}

\* what the page can answer for a match
PageAnswers(match) ==
  {Answer("rejects", "none", "none", Size(0, 0), "none", "none")}
    \cup FoundAnswers(match, "found", "none")
    \cup (IF match.placement.selector \in DotSelectors
          THEN FoundAnswers(match, "null", "found")
                 \cup {Answer("returns", "null", "null", Size(0, 0), "none", "none")}
          ELSE {Answer("returns", "null", "none", Size(0, 0), "none", "none")})

\* the DOM calls of the injection, in order, once the box is locked
InjectionSteps(match, answer) ==
  IF match.clientAd.dv360Creative # "none" THEN <<"clear", "append iframe">>
  ELSE IF match.isVideo \/ match.placement.type = "video"
  THEN <<"clear",
         IF isImageUrl(match.clientAd.url) THEN "append img" ELSE "append placeholder",
         "append play button">>
  ELSE IF isImageUrl(match.clientAd.url) THEN <<"clear", "append img">>
  ELSE IF match.placement.type = "iframe" /\ answer.element = "IFRAME" THEN <<"set src">>
  ELSE IF match.placement.type = "iframe" /\ answer.element = "wraps-iframe"
  THEN <<"set inner src">>
  ELSE <<"clear", "append iframe">>

\* the contents are cleared and replaced first, the box locked afterwards
DomChangesClearFirst(match, answer) ==
  IF \/ answer.evaluate = "rejects"
     \/ ~ElementFound(match.placement.selector, answer)
     \/ ActualSize(match.placement.size, answer.rect).width < 50
     \/ ActualSize(match.placement.size, answer.rect).height < 50
  THEN <<>>
  ELSE InjectionSteps(match, answer) \o <<"lock size">>

\* what one page.evaluate does to the element: nothing when it is not found
\* or too small; the size lock (cssText) and then the injection, of which a
\* throwing DOM call leaves the lock alone
DomChanges(match, answer) ==
  IF \/ answer.evaluate = "rejects"
     \/ ~ElementFound(match.placement.selector, answer)
     \/ ActualSize(match.placement.size, answer.rect).width < 50
     \/ ActualSize(match.placement.size, answer.rect).height < 50
  THEN <<>>
  ELSE IF answer.dom = "throws" THEN <<"lock size">>
  ELSE <<"lock size">> \o InjectionSteps(match, answer)

(***************************************************************************)
(* processAdReplacement(page, placements, clientAds)                       *)
(***************************************************************************)
MaxJobPlacements == 2

MaxJobClientAds == 2

\* every placement is handed to the tiered matcher
AllPlacements(placementList) == placementList

\* placements.filter(p => p.type !== 'video')
regularPlacements(placementList) == Filter("regularPlacement", placementList)

\* placements.filter(p => p.type === 'video')
videoPlacements(placementList) == Filter("videoPlacement", placementList)

\* processedClientAds.filter(ad => ad.type !== 'video')
regularAds(processedClientAds) == Filter("regularAd", processedClientAds)

\* processedClientAds.filter(ad => ad.type === 'video')
videoAds(processedClientAds) == Filter("videoAd", processedClientAds)

\* [...regularMatches, ...videoMatches]
Spread(regular, videoMatches) ==
  [threw |-> regular.threw,
   matches |-> IF regular.threw THEN <<>> ELSE regular.matches \o videoMatches]

allMatches(placementList, processedClientAds) ==
  Spread(matchAdsToplacements(regularPlacements(placementList), regularAds(processedClientAds)),
         matchVideoAdsToplacements(videoPlacements(placementList), videoAds(processedClientAds)))

\* the placements of a page job: two display slots of one size (one found
\* by class), a native video element of that size, a 16:9 video container
\* and an iframe under 50px high
JobSlots ==
  { Slot("#ad-1", 300, 250, "iframe", "-"),
    Slot(".ad-banner", 300, 250, "css", "-"),
    Slot(".player", 300, 250, "video", "native"),
    Slot("#vid", 640, 360, "video", "container"),
    Slot("#tiny", 320, 40, "iframe", "-") }

\* the creatives of a request: an image, a page, a video, a preview URL, a
\* blank url and a mobile banner that repeats the image's URL
JobCreatives ==
  { Creative("a.jpg", Str(SizeString(300, 250)), "display"),
    Creative("b.html", Str(SizeString(300, 250)), "display"),
    Creative("v.mp4", undefined, "video"),
    Creative("https://displayvideo.google.com/doubleclick/preview/1",
             Str(SizeString(300, 250)), "display"),
    Creative(" ", Str(SizeString(300, 250)), "display"),
    Creative("a.jpg", Str(SizeString(320, 50)), "display") }

Init ==
  /\ pc = "start"
  /\ sizeInput = null
  /\ parsed = null
  /\ placements \in {PlacementObjects(l) : l \in ListsOf(JobSlots, MaxJobPlacements)}
  /\ clientAds \in {ClientAdObjects(l) : l \in ListsOf(JobCreatives, MaxJobClientAds)}
  /\ matches = <<>>
  /\ results = NoResults
  /\ cursor = 0
  /\ lookup = NoLookup
  /\ page = <<>>
  /\ ServicesIdle

\* lines 956-973: the url filter, the two early returns, the pre-processing;
\* clientAds holds processedClientAds afterwards
FilterAndPreprocess ==
  /\ pc = "start"
  /\ IF Len(Filter("hasUrl", clientAds)) = 0 \/ Len(placements) = 0
     THEN /\ pc' = "done"
          /\ UNCHANGED clientAds
     ELSE \E outcomes \in OutcomesFor(Filter("hasUrl", clientAds)) :
            LET processed == preprocessClientAds(Filter("hasUrl", clientAds), outcomes)
            IN  IF processed.rejected
                THEN /\ pc' = "threw"
                     /\ UNCHANGED clientAds
                ELSE /\ pc' = "match"
                     /\ clientAds' = processed.processedAds
  /\ UNCHANGED <<sizeInput, parsed, placements, matches, results, cursor, lookup, page, serviceVars>>

\* lines 976-997: the partition, the two matchers, the early return
MatchAll ==
  /\ pc = "match"
  /\ LET found == allMatches(placements, clientAds)
     IN  /\ matches' = found.matches
         /\ pc' = IF found.threw THEN "threw"
                  ELSE IF Len(found.matches) = 0 THEN "done" ELSE "replace"
  /\ UNCHANGED <<sizeInput, parsed, placements, clientAds, results, cursor, lookup, page, serviceVars>>

\* replaceAds, one turn of for (const match of matches)
ReplaceStep ==
  /\ pc = "replace"
  /\ cursor < Len(matches)
  /\ \E answer \in PageAnswers(matches[cursor + 1]) :
       /\ lookup' = answer
       /\ results' = AfterMatch(results, matches[cursor + 1], answer)
       /\ page' = Append(page, [ selector |-> matches[cursor + 1].placement.selector,
                                 changes |-> DomChanges(matches[cursor + 1], answer) ])
  /\ cursor' = cursor + 1
  /\ UNCHANGED <<pc, sizeInput, parsed, placements, clientAds, matches, serviceVars>>

\* replaceAds returns; waitForAdsToLoad; the result is returned
WaitForAdsToLoad ==
  /\ pc = "replace"
  /\ cursor = Len(matches)
  /\ pc' = "done"
  /\ UNCHANGED <<sizeInput, parsed, placements, clientAds, matches, results, cursor, lookup, page, serviceVars>>

Next == FilterAndPreprocess \/ MatchAll \/ ReplaceStep \/ WaitForAdsToLoad

Spec == Init /\ [][Next]_vars

(***************************************************************************)
(* preprocessClientAds(clientAds) called on its own, one loop turn at a    *)
(* time: cursor is i, clientAds the argument.                              *)
(***************************************************************************)
InitPreprocess ==
  /\ pc = "preprocess"
  /\ sizeInput = null
  /\ parsed = null
  /\ placements = <<>>
  /\ clientAds \in {ClientAdObjects(l) : l \in ListsOf(PreviewCreatives, MaxPreviewAds)}
  /\ matches = <<>>
  /\ results = NoResults
  /\ cursor = 0
  /\ lookup = NoLookup
  /\ page = <<>>
  /\ ServicesIdle

\* lines 397-452: processedAds.push(...) or the rejection of an awaited call
TurnEnds(ad, outcome) ==
  IF outcome = "rejects"
  THEN /\ pc' = "rejected"
       /\ UNCHANGED <<processedAds, cursor>>
  ELSE /\ processedAds' = Append(processedAds, Preprocessed(ad, outcome))
       /\ cursor' = cursor + 1
       /\ UNCHANGED pc

\* one turn of for (let i = 0; i < clientAds.length; i++)
PreprocessTurn ==
  /\ pc = "preprocess"
  /\ cursor < Len(clientAds)
  /\ \E answer \in TurnAnswers(clientAds[cursor + 1]) :
       /\ extraction' = Append(extraction, answer)
       /\ TurnEnds(clientAds[cursor + 1], TurnOutcome(answer))
  /\ UNCHANGED <<sizeInput, parsed, placements, clientAds, matches, results, lookup, page>>
  /\ UNCHANGED <<routeVars, parallelVars, browserVars, navigationVars, captureVars, waitVars, viewportVars>>

\* return processedAds
PreprocessReturn ==
  /\ pc = "preprocess"
  /\ cursor = Len(clientAds)
  /\ pc' = "preprocessed"
  /\ UNCHANGED <<sizeInput, parsed, placements, clientAds, matches, results, cursor, lookup, page, serviceVars>>

NextPreprocess == PreprocessTurn \/ PreprocessReturn

SpecPreprocess == InitPreprocess /\ [][NextPreprocess]_vars

(***************************************************************************)
(* Detection (the ad detection module with the video strategy):            *)
(* detectIframeAds, detectCSSAds, detectVideoAds and detectAds.  The page  *)
(* is a list of elements in document order; an element has a tag, an id,   *)
(* a name, its first class, one data attribute, the kind of domain its src *)
(* names, its bounding box and the element it is a child of.  The boxes of *)
(* the model have whole-pixel coordinates, so Math.round leaves them as    *)
(* they are.  A placement keeps the fields the matcher and the injector    *)
(* read; ref is the element it was made from.                              *)
(***************************************************************************)
Box(left, top, width, height) ==
  [left |-> left, top |-> top, width |-> width, height |-> height]

ElementOf(tag, id, name, className, data, src, rect, parent) ==
  [ tag |-> tag, id |-> id, name |-> name, className |-> className, data |-> data,
    src |-> src, rect |-> rect, parent |-> parent ]

\* results.push({ selector, size: { width, height }, sizeString, type, ... })
Placement(ref, selector, rect, type, subtype) ==
  [ ref |-> ref, selector |-> selector, size |-> Size(rect.width, rect.height),
    sizeString |-> Str(SizeString(rect.width, rect.height)),
    type |-> type, subtype |-> subtype ]

Indexes(doc) == [i \in 1..Len(doc) |-> i]

\* array.indexOf(x) + 1
IndexIn(array, x) == CHOOSE k \in 1..Len(array) : array[k] = x

\* document.querySelectorAll(tag)
ByTag(doc, tag) == SelectSeq(Indexes(doc), LAMBDA i : doc[i].tag = tag)

\* lines 352-359: the selector of an ad-server iframe
IframeSelector(element, index) ==
  IF element.id # "" THEN "#" \o element.id
  ELSE IF element.name # "" THEN "iframe[name=\"" \o element.name \o "\"]"
  ELSE "iframe:nth-of-type(" \o ToString(index + 1) \o ")"

\* the iframes whose src contains an ad server domain, as positions in iframes
AdServerFrames(doc, iframes) ==
  SelectSeq(Indexes(iframes), LAMBDA k : doc[iframes[k]].src = "adserver")

IframeResults(doc, iframes, found) ==
  [n \in 1..Len(found) |->
     Placement(iframes[found[n]], IframeSelector(doc[iframes[found[n]]], found[n] - 1),
               doc[iframes[found[n]]].rect, "iframe", "-")]

IframesScanned(doc, iframes) == IframeResults(doc, iframes, AdServerFrames(doc, iframes))

detectIframeAds(doc) == IframesScanned(doc, ByTag(doc, "iframe"))

\* the selectors of the source's list that match a class name, an id or a
\* data attribute of the model, in the list's order
AD_CONTAINER_SELECTORS ==
  << ".ad-slot", ".ad-container", "[class*=\"ad-\"]", "[id*=\"ad-\"]", "[data-ad-slot]" >>

\* element.matches(selector) for the names of the model
Selects(selector, element) ==
  \/ selector = ".ad-slot" /\ element.className = "ad-slot"
  \/ selector = ".ad-container" /\ element.className = "ad-container"
  \/ selector = "[class*=\"ad-\"]" /\ element.className \in {"ad-slot", "ad-container"}
  \/ selector = "[id*=\"ad-\"]" /\ element.id = "ad-1"
  \/ selector = "[data-ad-slot]" /\ element.data = "data-ad-slot=\"1\""

\* AD_PATTERNS tested on the id and the classes: /^ad[-_]/i, /sponsored/i
matchesAdPattern(element) ==
  \/ element.id = "ad-1"
  \/ element.className \in {"ad-slot", "ad-container", "sponsored"}

\* `[data-ad-position="${Math.round(rect.left)}-${Math.round(rect.top)}"]`
PositionSelector(rect) ==
  "[data-ad-position=\"" \o ToString(rect.left) \o "-" \o ToString(rect.top) \o "\"]"

\* Strategy 2: the first two data attributes; markElementPosition has just
\* appended data-ad-position to the element's attributes
AttrSelector(element) ==
  (IF element.data = "" THEN "" ELSE "[" \o element.data \o "]")
    \o PositionSelector(element.rect)

\* document.querySelectorAll(attrSelector): marked are the elements that
\* carry data-ad-position by now
AttrMatches(doc, i, marked) ==
  {j \in marked :
     /\ doc[j].rect.left = doc[i].rect.left
     /\ doc[j].rect.top = doc[i].rect.top
     /\ doc[i].data # "" => doc[j].data = doc[i].data}

\* the parents of the model that have an id
ParentsWithId == {"#sidebar"}

\* Array.from(parent.children)
Children(doc, parent) == SelectSeq(Indexes(doc), LAMBDA j : doc[j].parent = parent)

\* Strategy 3: the path from a parent with an id, which one element matches
ParentPath(doc, i) ==
  doc[i].parent \o " > " \o doc[i].tag \o ":nth-child("
    \o ToString(IndexIn(Children(doc, doc[i].parent), i)) \o ")"

\* parent.querySelectorAll(`:scope > ${tag}.${classes[0]}`)
SameClassSiblings(doc, i) ==
  SelectSeq(Children(doc, doc[i].parent),
            LAMBDA j : doc[j].tag = doc[i].tag /\ doc[j].className = doc[i].className)

\* Strategy 4: `${tag}.${classes[0]}:nth-of-type(${idx})`
ClassSelector(doc, i) ==
  doc[i].tag \o "." \o doc[i].className \o ":nth-of-type("
    \o ToString(IndexIn(SameClassSiblings(doc, i), i)) \o ")"

\* lines 410-482
generateSelector(doc, i, marked) ==
  IF doc[i].id # "" THEN "#" \o doc[i].id
  ELSE IF AttrMatches(doc, i, marked) = {i} THEN AttrSelector(doc[i])
  ELSE IF doc[i].parent \in ParentsWithId THEN ParentPath(doc, i)
  ELSE IF doc[i].className # "" THEN ClassSelector(doc, i)
  ELSE PositionSelector(doc[i].rect)

\* width >= 50 && height >= 50 && width <= 1200 && height <= 800
ReasonableDimensions(rect) ==
  rect.width >= 50 /\ rect.height >= 50 /\ rect.width <= 1200 /\ rect.height <= 800

NothingScanned == [results |-> <<>>, processedElements |-> {}, marked |-> {}]

\* the body of elements.forEach(element => ...) in both searches
CssVisit(doc, st, i) ==
  IF doc[i].rect \in st.processedElements \/ ~ReasonableDimensions(doc[i].rect) THEN st
  ELSE [ processedElements |-> st.processedElements \cup {doc[i].rect},
         marked |-> st.marked \cup {i},
         results |-> Append(st.results,
                            Placement(i, generateSelector(doc, i, st.marked \cup {i}),
                                      doc[i].rect, "css", "-")) ]

RECURSIVE CssScan(_, _, _)
CssScan(doc, visits, st) ==
  IF visits = <<>> THEN st
  ELSE CssScan(doc, Tail(visits), CssVisit(doc, st, Head(visits)))

RECURSIVE SelectorVisits(_, _)
\* selectors.forEach(selector => document.querySelectorAll(selector).forEach(...))
SelectorVisits(doc, k) ==
  IF k > Len(AD_CONTAINER_SELECTORS) THEN <<>>
  ELSE SelectSeq(Indexes(doc), LAMBDA i : Selects(AD_CONTAINER_SELECTORS[k], doc[i]))
         \o SelectorVisits(doc, k + 1)

\* document.querySelectorAll('*') and matchesAdPattern(element)
PatternVisits(doc) == SelectSeq(Indexes(doc), LAMBDA i : matchesAdPattern(doc[i]))

detectCSSAds(doc) ==
  CssScan(doc, SelectorVisits(doc, 1) \o PatternVisits(doc), NothingScanned).results

\* the selectors of VIDEO_SELECTORS that match a tag or class of the model
VIDEO_SELECTORS == << "video", ".video-container", "[class*=\"video-\"]", ".player" >>

VideoSelects(selector, element) ==
  \/ selector = "video" /\ element.tag = "video"
  \/ selector = ".video-container" /\ element.className = "video-container"
  \/ selector = "[class*=\"video-\"]" /\ element.className = "video-container"
  \/ selector = ".player" /\ element.className = "player"

\* lines 214-225: generateSelector of the video strategy
VideoSelector(element, index) ==
  IF element.id # "" THEN "#" \o element.id
  ELSE IF element.className # "" THEN "." \o element.className
  ELSE element.tag \o ":nth-of-type(" \o ToString(index + 1) \o ")"

\* Math.abs(width / height - 16 / 9) < 0.1
is16by9(width, height) == 10 * Abs(9 * width - 16 * height) < 9 * height

\* width >= 200 && height >= 100, and the 16:9 test for a container
VideoGate(rect, subtype) ==
  /\ rect.width >= 200
  /\ rect.height >= 100
  /\ subtype = "container" => is16by9(rect.width, rect.height)

Visit(i, index, subtype) == [i |-> i, index |-> index, subtype |-> subtype]

\* one forEach callback of the video strategy: the tag test of the
\* container search, the key test, the gate, the push
VideoVisit(doc, st, visit) ==
  IF \/ visit.subtype = "container" /\ doc[visit.i].tag \in {"video", "iframe"}
     \/ doc[visit.i].rect \in st.processedElements
     \/ ~VideoGate(doc[visit.i].rect, visit.subtype)
  THEN st
  ELSE [ st EXCEPT
           !.processedElements = @ \cup {doc[visit.i].rect},
           !.results = Append(@, Placement(visit.i, VideoSelector(doc[visit.i], visit.index),
                                           doc[visit.i].rect, "video", visit.subtype)) ]

RECURSIVE VideoScan(_, _, _)
VideoScan(doc, visits, st) ==
  IF visits = <<>> THEN st
  ELSE VideoScan(doc, Tail(visits), VideoVisit(doc, st, Head(visits)))

\* iframes.forEach((iframe, index) => ...) for the video player domains
VideoFrameVisits(doc, iframes) ==
  SelectSeq([k \in 1..Len(iframes) |-> Visit(iframes[k], k - 1, "iframe")],
            LAMBDA visit : doc[visit.i].src = "video")

\* videos.forEach((video, index) => ...)
NativeVisits(videos) == [k \in 1..Len(videos) |-> Visit(videos[k], k - 1, "native")]

ContainerMatches(elements) ==
  [k \in 1..Len(elements) |-> Visit(elements[k], k - 1, "container")]

RECURSIVE ContainerVisits(_, _)
\* videoSelectors.forEach(selector => elements.forEach((element, index) => ...))
ContainerVisits(doc, k) ==
  IF k > Len(VIDEO_SELECTORS) THEN <<>>
  ELSE ContainerMatches(
         SelectSeq(Indexes(doc), LAMBDA i : VideoSelects(VIDEO_SELECTORS[k], doc[i])))
         \o ContainerVisits(doc, k + 1)

detectVideoAds(doc) ==
  VideoScan(doc,
            VideoFrameVisits(doc, ByTag(doc, "iframe")) \o NativeVisits(ByTag(doc, "video"))
              \o ContainerVisits(doc, 1),
            NothingScanned).results

\* `${ad.size.width}-${ad.size.height}-${ad.selector}`
PositionKey(ad) ==
  ToString(ad.size.width) \o "-" \o ToString(ad.size.height) \o "-" \o ad.selector

RECURSIVE Combine(_, _, _)
\* cssAds.forEach(...), videoAds.forEach(...): push unless the key is there
Combine(allAds, existingPositions, ads) ==
  IF ads = <<>> THEN allAds
  ELSE IF PositionKey(Head(ads)) \in existingPositions
  THEN Combine(allAds, existingPositions, Tail(ads))
  ELSE Combine(Append(allAds, Head(ads)), existingPositions \cup {PositionKey(Head(ads))},
               Tail(ads))

Combined(iframeAds, others) ==
  Combine(iframeAds, {PositionKey(iframeAds[n]) : n \in DOMAIN iframeAds}, others)

\* detectAds(page) as the route calls it: includeVideo by default, no viewport
detectAds(doc) == Combined(detectIframeAds(doc), detectCSSAds(doc) \o detectVideoAds(doc))

MaxElements == 2

\* elements of a page: two ad-server iframes that share a name, a collapsed
\* ad-server iframe, two ad containers and a sponsored box laid over the
\* first iframe, two players of one class, a player iframe, a 16:9
\* container laid over the first player, and two more boxes that start at
\* the first iframe's corner (one under a parent with an id, one without
\* id and class)
PageElements ==
  { ElementOf("iframe", "", "google_ads_frame", "", "", "adserver", Box(0, 0, 300, 250), "body"),
    ElementOf("iframe", "", "google_ads_frame", "", "", "adserver", Box(0, 300, 728, 90), "body"),
    ElementOf("iframe", "ad-1", "", "", "", "adserver", Box(0, 0, 0, 0), "main"),
    ElementOf("div", "", "", "ad-slot", "", "", Box(0, 0, 300, 250), "main"),
    ElementOf("div", "", "", "ad-container", "", "", Box(0, 0, 300, 250), "aside"),
    ElementOf("div", "", "", "sponsored", "data-ad-slot=\"1\"", "", Box(0, 0, 300, 600), "main"),
    ElementOf("video", "", "", "player", "", "", Box(0, 400, 640, 360), "body"),
    ElementOf("video", "", "", "player", "", "", Box(0, 800, 400, 300), "body"),
    ElementOf("iframe", "", "", "", "", "video", Box(0, 1200, 560, 315), "body"),
    ElementOf("div", "", "", "video-container", "", "", Box(0, 400, 640, 360), "#sidebar"),
    ElementOf("div", "", "", "ad-slot", "", "", Box(0, 0, 728, 90), "#sidebar"),
    ElementOf("div", "", "", "", "data-ad-slot=\"1\"", "", Box(0, 0, 320, 50), "body") }

InitDetect ==
  /\ pc = "detect"
  /\ sizeInput = null
  /\ parsed = null
  /\ placements = <<>>
  /\ clientAds = <<>>
  /\ matches = <<>>
  /\ results = NoResults
  /\ cursor = 0
  /\ lookup = NoLookup
  /\ page = <<>>
  /\ document \in ListsOf(PageElements, MaxElements)
  /\ customSelectors = <<>>
  /\ PreprocessIdle
  /\ ParallelIdle
  /\ BrowserIdle
  /\ NavigationIdle
  /\ CaptureIdle
  /\ WaitIdle
  /\ ViewportIdle

\* detectedAds = await detectAds(page): placements holds detectedAds
DetectAdsCall ==
  /\ pc = "detect"
  /\ placements' = detectAds(document)
  /\ pc' = "detected"
  /\ UNCHANGED <<sizeInput, parsed, clientAds, matches, results, cursor, lookup, page, serviceVars>>

NextDetect == DetectAdsCall

SpecDetect == InitDetect /\ [][NextDetect]_vars

(***************************************************************************)
(* The route's beforeCapture callback: the placements come from the        *)
(* request's custom selectors or from detectAds, and with creatives they   *)
(* are handed to processAdReplacement.                                     *)
(***************************************************************************)
\* placements.push({ selector, originalSelector, width, height, sizeString,
\* type: 'custom', ... }): the object has no size property
CustomPlacement(ref, selector, elIndex, rect) ==
  [ ref |-> ref, selector |-> selector \o ":nth-of-type(" \o ToString(elIndex + 1) \o ")",
    size |-> undefined, sizeString |-> Str(SizeString(rect.width, rect.height)),
    type |-> "custom", subtype |-> "-", originalSelector |-> selector,
    width |-> rect.width, height |-> rect.height ]

\* elements.forEach((el, elIndex) => { if (width > 0 && height > 0) ... })
SelectedPlacements(doc, selector, elements) ==
  [n \in 1..Len(elements) |-> CustomPlacement(elements[n], selector, n - 1, doc[elements[n]].rect)]

Measurable(placement) == placement.width > 0 /\ placement.height > 0

RECURSIVE SelectorsScanned(_, _, _)
\* sels.forEach((selector, index) => ...)
SelectorsScanned(doc, selectors, k) ==
  IF k > Len(selectors) THEN <<>>
  ELSE SelectSeq(SelectedPlacements(doc, selectors[k],
                   SelectSeq(Indexes(doc), LAMBDA i : Selects(selectors[k], doc[i]))),
                 Measurable)
         \o SelectorsScanned(doc, selectors, k + 1)

customSelectorsToplacements(doc, selectors) == SelectorsScanned(doc, selectors, 1)

\* the customSelectors of a request of the model
RequestSelectors == << ".ad-slot", "[data-ad-slot]" >>

\* elements of the page of a request: an ad-server iframe, an ad container
\* of a standard size, a box with a data-ad-slot attribute and a collapsed
\* ad-server iframe
RouteElements ==
  { ElementOf("iframe", "", "google_ads_frame", "", "", "adserver", Box(0, 0, 300, 250), "body"),
    ElementOf("div", "", "", "ad-slot", "", "", Box(0, 300, 300, 250), "main"),
    ElementOf("div", "", "", "", "data-ad-slot=\"1\"", "", Box(0, 600, 320, 50), "body"),
    ElementOf("iframe", "ad-1", "", "", "", "adserver", Box(0, 0, 0, 0), "main") }

InitRoute ==
  /\ pc = "beforeCapture"
  /\ sizeInput = null
  /\ parsed = null
  /\ placements = <<>>
  /\ clientAds \in {ClientAdObjects(l) : l \in ListsOf(JobCreatives, MaxJobClientAds)}
  /\ matches = <<>>
  /\ results = NoResults
  /\ cursor = 0
  /\ lookup = NoLookup
  /\ page = <<>>
  /\ document \in ListsOf(RouteElements, MaxElements)
  /\ customSelectors \in {<<>>, RequestSelectors}
  /\ PreprocessIdle
  /\ ParallelIdle
  /\ BrowserIdle
  /\ NavigationIdle
  /\ CaptureIdle
  /\ WaitIdle
  /\ ViewportIdle

\* if (detectedAds.length > 0) { ... if (validAdCreatives.length > 0) ... }
Detected(detectedAds) ==
  /\ placements' = detectedAds
  /\ pc' = IF Len(detectedAds) > 0 /\ Len(clientAds) > 0 THEN "start" ELSE "done"

\* lines 159-168: custom selectors or auto-detection
BeforeCapture ==
  /\ pc = "beforeCapture"
  /\ IF Len(customSelectors) > 0
     THEN Detected(customSelectorsToplacements(document, customSelectors))
     ELSE Detected(detectAds(document))
  /\ UNCHANGED <<sizeInput, parsed, clientAds, matches, results, cursor, lookup, page, serviceVars>>

NextRoute == BeforeCapture \/ Next

SpecRoute == InitRoute /\ [][NextRoute]_vars

(***************************************************************************)
(* processInParallel (routes/screenshot.js): a pool of processNext()       *)
(* workers that share currentIndex and the results array.                  *)
(***************************************************************************)
MaxItems == 4

MaxConcurrentSetting == 3

\* MAX_CONCURRENT of the environment table: the documented default of
\* config.maxConcurrent
DefaultMaxConcurrent == 3

Worker(state, index) == [state |-> state, index |-> index]

WorkerCountUncapped(limit, n) == n

\* Array(Math.min(maxConcurrent, items.length))
WorkerCount(limit, n) == IF limit < n THEN limit ELSE n

\* .map(() => processNext()): each processNext() runs up to its first
\* await, so the w-th worker takes item w - 1 if there is one and calls the
\* processor with it
StartWorkers(count, n) ==
  [w \in 1..count |-> IF w - 1 < n THEN Worker("awaiting", w - 1) ELSE Worker("done", -1)]

\* what a processor call for items[index] settled with: the processor's
\* result for that item, or { error: error.message, item }
Settled(kind, index) == [kind |-> kind, item |-> index]

\* a place of the results array that was never written
EmptyPlace == Settled("empty", -1)

AssignResultPushed(arr, index, value) == Append(arr, value)

\* results[index] = value on a JavaScript array: the array grows to
\* index + 1 and the places never written stay empty
AssignResult(arr, index, value) ==
  [i \in 1..Max(Len(arr), index + 1) |->
     IF i = index + 1 THEN value ELSE IF i <= Len(arr) THEN arr[i] ELSE EmptyPlace]

InitParallel ==
  /\ pc = "parallel"
  /\ items \in 0..MaxItems
  /\ maxConcurrent \in 1..MaxConcurrentSetting
  /\ currentIndex = 0
  /\ workers = <<>>
  /\ rawResults = <<>>
  /\ processorCalls = [i \in 1..items |-> 0]
  /\ sizeInput = null
  /\ parsed = null
  /\ placements = <<>>
  /\ clientAds = <<>>
  /\ matches = <<>>
  /\ results = NoResults
  /\ cursor = 0
  /\ lookup = NoLookup
  /\ page = <<>>
  /\ PreprocessIdle
  /\ RouteIdle
  /\ BrowserIdle
  /\ NavigationIdle
  /\ CaptureIdle
  /\ WaitIdle
  /\ ViewportIdle

\* lines 15-34: results = [], currentIndex = 0, the workers are created and
\* each has called the processor for its first item
ProcessInParallelCall ==
  /\ pc = "parallel"
  /\ pc' = "processing"
  /\ workers' = StartWorkers(WorkerCount(maxConcurrent, items), items)
  /\ currentIndex' = WorkerCount(WorkerCount(maxConcurrent, items), items)
  /\ rawResults' = <<>>
  /\ processorCalls' = [i \in 1..items |-> IF \E w \in DOMAIN workers' : workers'[w] = Worker("awaiting", i - 1)
                                           THEN processorCalls[i] + 1 ELSE processorCalls[i]]
  /\ UNCHANGED <<items, maxConcurrent>>
  /\ UNCHANGED <<coreVars, preprocessVars, routeVars, browserVars, navigationVars, captureVars, waitVars, viewportVars>>

\* the while loop of processNext after its await: currentIndex < items.length
\* ? take the next item and call the processor : return
TakeNext(w) ==
  IF currentIndex < items
  THEN /\ workers' = [workers EXCEPT ![w] = Worker("awaiting", currentIndex)]
       /\ currentIndex' = currentIndex + 1
       /\ processorCalls' = [processorCalls EXCEPT ![currentIndex + 1] = @ + 1]
  ELSE /\ workers' = [workers EXCEPT ![w] = Worker("done", -1)]
       /\ UNCHANGED <<currentIndex, processorCalls>>

\* lines 23-27: the processor call a worker awaits resolves (results[index] =
\* result) or rejects (results[index] = { error, item }), and the worker
\* goes round its loop
ProcessorSettles ==
  /\ pc = "processing"
  /\ \E w \in DOMAIN workers, outcome \in {"result", "error"} :
       /\ workers[w].state = "awaiting"
       /\ rawResults' = AssignResult(rawResults, workers[w].index, Settled(outcome, workers[w].index))
       /\ TakeNext(w)
  /\ UNCHANGED <<pc, items, maxConcurrent>>
  /\ UNCHANGED <<coreVars, preprocessVars, routeVars, browserVars, navigationVars, captureVars, waitVars, viewportVars>>

\* lines 36-37: await Promise.all(workers); return results
ParallelReturn ==
  /\ pc = "processing"
  /\ \A w \in DOMAIN workers : workers[w].state = "done"
  /\ pc' = "returned"
  /\ UNCHANGED <<coreVars, serviceVars>>

NextParallel == ProcessInParallelCall \/ ProcessorSettles \/ ParallelReturn

SpecParallel == InitParallel /\ [][NextParallel]_vars

(***************************************************************************)
(* getBrowser / closeBrowser (services/puppeteerService.js): the module's  *)
(* browserInstance, read and written by every caller.  A browser is named  *)
(* by the number of the puppeteer.launch() call that made it; 0 is null.   *)
(***************************************************************************)
MaxCallers == 3

\* a call of getBrowser() or closeBrowser(): what it is doing, the launch it
\* started (0: none) and the browser it returned (0: none)
Caller(op, state, launch, got) == [op |-> op, state |-> state, launch |-> launch, got |-> got]

InitBrowser ==
  /\ pc = "serving"
  /\ browserInstance = 0
  /\ launches = 0
  /\ closes = 0
  /\ callers = <<>>
  /\ sizeInput = null
  /\ parsed = null
  /\ placements = <<>>
  /\ clientAds = <<>>
  /\ matches = <<>>
  /\ results = NoResults
  /\ cursor = 0
  /\ lookup = NoLookup
  /\ page = <<>>
  /\ PreprocessIdle
  /\ RouteIdle
  /\ ParallelIdle
  /\ NavigationIdle
  /\ CaptureIdle
  /\ WaitIdle
  /\ ViewportIdle

\* getBrowser() up to its await: if (!browserInstance) the caller calls
\* puppeteer.launch() and waits for it, else it returns browserInstance
GetBrowserCall ==
  /\ Len(callers) < MaxCallers
  /\ IF browserInstance = 0
     THEN /\ launches' = launches + 1
          /\ callers' = Append(callers, Caller("getBrowser", "launching", launches + 1, 0))
     ELSE /\ callers' = Append(callers, Caller("getBrowser", "returned", 0, browserInstance))
          /\ UNCHANGED launches
  /\ UNCHANGED <<pc, browserInstance, closes>>
  /\ UNCHANGED <<coreVars, preprocessVars, routeVars, parallelVars, navigationVars, captureVars, waitVars, viewportVars>>

\* the launch a caller waits for resolves: browserInstance = (the new
\* browser); return browserInstance
LaunchResolves ==
  /\ \E c \in DOMAIN callers :
       /\ callers[c].state = "launching"
       /\ browserInstance' = callers[c].launch
       /\ callers' = [callers EXCEPT ![c] = Caller("getBrowser", "returned", callers[c].launch, callers[c].launch)]
  /\ UNCHANGED <<pc, launches, closes>>
  /\ UNCHANGED <<coreVars, preprocessVars, routeVars, parallelVars, navigationVars, captureVars, waitVars, viewportVars>>

\* the launch rejects: getBrowser() rejects and browserInstance is not written
LaunchRejects ==
  /\ \E c \in DOMAIN callers :
       /\ callers[c].state = "launching"
       /\ callers' = [callers EXCEPT ![c] = Caller("getBrowser", "rejected", callers[c].launch, 0)]
  /\ UNCHANGED <<pc, browserInstance, launches, closes>>
  /\ UNCHANGED <<coreVars, preprocessVars, routeVars, parallelVars, navigationVars, captureVars, waitVars, viewportVars>>

\* closeBrowser() up to its await: if (browserInstance) the caller calls
\* browserInstance.close() and waits for it, else it returns
CloseBrowserCall ==
  /\ Len(callers) < MaxCallers
  /\ closes' = closes + 1
  /\ callers' = Append(callers, Caller("closeBrowser", IF browserInstance = 0 THEN "returned" ELSE "closing", 0, 0))
  /\ UNCHANGED <<pc, browserInstance, launches>>
  /\ UNCHANGED <<coreVars, preprocessVars, routeVars, parallelVars, navigationVars, captureVars, waitVars, viewportVars>>

\* close() resolves (browserInstance = null) or rejects (closeBrowser()
\* rejects before the assignment)
CloseSettles ==
  /\ \E c \in DOMAIN callers, outcome \in {"returned", "rejected"} :
       /\ callers[c].state = "closing"
       /\ browserInstance' = IF outcome = "returned" THEN 0 ELSE browserInstance
       /\ callers' = [callers EXCEPT ![c] = Caller("closeBrowser", outcome, 0, 0)]
  /\ UNCHANGED <<pc, launches, closes>>
  /\ UNCHANGED <<coreVars, preprocessVars, routeVars, parallelVars, navigationVars, captureVars, waitVars, viewportVars>>

NextBrowser ==
  GetBrowserCall \/ LaunchResolves \/ LaunchRejects \/ CloseBrowserCall \/ CloseSettles

SpecBrowser == InitBrowser /\ [][NextBrowser]_vars

(***************************************************************************)
(* navigateWithRetry (services/puppeteerService.js), called by             *)
(* captureScreenshot.  navigation records the delays and the page.goto     *)
(* calls of one call, in order.                                            *)
(***************************************************************************)
MaxRetriesSetting == 2

\* maxRetries = 1, retryDelayMs = 5000
DefaultMaxRetries == 1

DefaultRetryDelayMs == 5000

RETRYABLE_ERRORS ==
  << "net::ERR_NAME_NOT_RESOLVED", "net::ERR_CONNECTION_REFUSED", "net::ERR_CONNECTION_TIMED_OUT",
     "net::ERR_CONNECTION_RESET", "net::ERR_NETWORK_CHANGED", "net::ERR_INTERNET_DISCONNECTED",
     "Timeout", "Navigation timeout" >>

\* message.includes(errType)
Includes(message, errType) ==
  \E k \in 1..(Len(message) - Len(errType) + 1) :
    SubSeq(message, k, k + Len(errType) - 1) = errType

\* RETRYABLE_ERRORS.some(errType => message.includes(errType))
isRetryableError(message) ==
  \E e \in DOMAIN RETRYABLE_ERRORS : Includes(message, RETRYABLE_ERRORS[e])

\* what page.goto does: it resolves ("ok") or rejects with an error of one
\* of these messages
GotoOutcomes ==
  { "ok",
    "net::ERR_NAME_NOT_RESOLVED at https://example.com",
    "Navigation timeout of 60000 ms exceeded",
    "net::ERR_CERT_AUTHORITY_INVALID at https://example.com",
    "net::ERR_ABORTED at https://example.com",
    "" }

\* options.maxRetries || 1, options.retryDelayMs || 5000: an option is
\* <<>> (not given) or <<value>>, and 0 is falsy
OrDefault(option, default) ==
  IF option = <<>> THEN default ELSE IF option[1] = 0 THEN default ELSE option[1]

\* the values of options.maxRetries and options.retryDelayMs of a call
RetryOptions == {<<>>} \cup {<<n>> : n \in 0..MaxRetriesSetting}

DelayOptions == {<<>>, <<0>>, <<1000>>}

Delayed(ms) == [call |-> "delay", ms |-> ms, outcome |-> "ok"]

Went(outcome) == [call |-> "goto", ms |-> 0, outcome |-> outcome]

\* navigateWithRetry is entered from captureScreenshot with the options
\* defaulted, or with its own arguments
InitNavigate ==
  /\ pc = "navigate"
  /\ maxRetries \in {OrDefault(o, DefaultMaxRetries) : o \in RetryOptions} \cup 0..MaxRetriesSetting
  /\ retryDelayMs \in {OrDefault(o, DefaultRetryDelayMs) : o \in DelayOptions}
  /\ attempt = 0
  /\ lastError = "null"
  /\ navigation = <<>>
  /\ sizeInput = null
  /\ parsed = null
  /\ placements = <<>>
  /\ clientAds = <<>>
  /\ matches = <<>>
  /\ results = NoResults
  /\ cursor = 0
  /\ lookup = NoLookup
  /\ page = <<>>
  /\ PreprocessIdle
  /\ RouteIdle
  /\ ParallelIdle
  /\ BrowserIdle
  /\ CaptureIdle
  /\ WaitIdle
  /\ ViewportIdle

\* for (...; attempt <= maxRetries; ...) { if (attempt > 0) await
\* delay(retryDelayMs); ...; after the loop: throw lastError
LoopTest ==
  /\ pc = "navigate"
  /\ IF attempt > maxRetries THEN pc' = "threw" /\ UNCHANGED navigation
     ELSE /\ pc' = "goto"
          /\ navigation' = IF attempt > 0 THEN Append(navigation, Delayed(retryDelayMs)) ELSE navigation
  /\ UNCHANGED <<maxRetries, retryDelayMs, attempt, lastError>>
  /\ UNCHANGED <<coreVars, preprocessVars, routeVars, parallelVars, browserVars, captureVars, waitVars, viewportVars>>

GivesUpOnLastAttemptOnly(message, tried, limit) == tried >= limit

\* if (!isRetryableError(error) || attempt >= maxRetries) throw error
GivesUp(message, tried, limit) == ~isRetryableError(message) \/ tried >= limit

\* catch (error) { lastError = error; ... }
Caught(message) ==
  /\ lastError' = message
  /\ IF GivesUp(message, attempt, maxRetries)
     THEN pc' = "threw" /\ UNCHANGED attempt
     ELSE pc' = "navigate" /\ attempt' = attempt + 1

\* await page.goto(url, ...); return, or the catch block
Goto ==
  /\ pc = "goto"
  /\ \E outcome \in GotoOutcomes :
       /\ navigation' = Append(navigation, Went(outcome))
       /\ IF outcome = "ok"
          THEN pc' = "navigated" /\ UNCHANGED <<attempt, lastError>>
          ELSE Caught(outcome)
  /\ UNCHANGED <<maxRetries, retryDelayMs>>
  /\ UNCHANGED <<coreVars, preprocessVars, routeVars, parallelVars, browserVars, captureVars, waitVars, viewportVars>>

NextNavigate == LoopTest \/ Goto

SpecNavigate == InitNavigate /\ [][NextNavigate]_vars

(***************************************************************************)
(* The value processAdReplacement returns: { ...results, matches }.        *)
(***************************************************************************)
\* allMatches.map(m => ({ placement, clientAd: { url, size, type,
\* isDV360Extracted }, isVideo })): isDV360Extracted is set where
\* originalUrl is set
ReturnedMatch(m) ==
  [ placement |-> m.placement.selector,
    clientAd |-> [ url |-> OrElse(m.clientAd.originalUrl, m.clientAd.url),
                   size |-> m.clientAd.size,
                   type |-> m.clientAd.type,
                   isDV360Extracted |-> m.clientAd.originalUrl # "<undefined>" ],
    isVideo |-> m.isVideo ]

\* return { ...results, matches: allMatches.map(...) }
Returned_processAdReplacement(res, all) ==
  [ successful |-> res.successful,
    failed |-> res.failed,
    matches |-> [m \in DOMAIN all |-> ReturnedMatch(all[m])] ]

(***************************************************************************)
(* captureScreenshot (services/puppeteerService.js): the awaited steps of  *)
(* one call, with the route's beforeCapture callback run in its middle.    *)
(* pc is the position of the callback ("idle" before it is called).        *)
(***************************************************************************)
\* the awaited calls of the try block, in order
CaptureSteps ==
  << "setViewport", "setUserAgent", "setExtraHTTPHeaders", "navigateWithRetry",
     "waitForPageContent", "triggerLazyLoading", "waitForFullPageLoad",
     "dismissCookieConsent", "dismissPopups", "delay(1000)", "beforeCapture",
     "delay(1500)", "waitForViewportImagesToLoad", "removePopupElements",
     "removeCookieBannerElements", "delay(500)", "page.screenshot" >>

\* a delay always resolves; every other awaited call resolves or rejects
StepOutcomes(step) ==
  IF step \in {"delay(1000)", "delay(1500)", "delay(500)"} THEN {"resolves"}
  ELSE {"resolves", "rejects"}

\* stage: getBrowser, newPage, try (at step), finally, then resolved or
\* rejected; failed: the try block threw; opened, closed, screenshots: the
\* calls of browser.newPage() that resolved, of page.close() and of
\* page.screenshot(); called: options.beforeCapture was called
CaptureAt(stage, step, c) == [c EXCEPT !.stage = stage, !.step = step]

\* the pages and requests of the calls of the model: a page with an ad slot
\* and an ad-server iframe, with no, one or two creatives or a preview URL
CapturePage ==
  << ElementOf("div", "", "", "ad-slot", "", "", Box(0, 300, 300, 250), "main"),
     ElementOf("iframe", "", "google_ads_frame", "", "", "adserver", Box(0, 0, 728, 90), "body") >>

CaptureCreatives ==
  { <<>>,
    << Creative("a.jpg", Str(SizeString(300, 250)), "display") >>,
    << Creative("a.jpg", Str(SizeString(300, 250)), "display"),
       Creative("b.html", Str(SizeString(728, 90)), "display") >>,
    << Creative("https://displayvideo.google.com/doubleclick/preview/1",
                Str(SizeString(300, 250)), "display") >> }

InitCapture ==
  /\ pc = "idle"
  /\ \E given \in BOOLEAN :
       capture = [ stage |-> "getBrowser", step |-> 0, failed |-> FALSE, beforeCapture |-> given,
                   called |-> FALSE, opened |-> 0, closed |-> 0, screenshots |-> 0 ]
  /\ sizeInput = null
  /\ parsed = null
  /\ placements = <<>>
  /\ clientAds \in {ClientAdObjects(l) : l \in CaptureCreatives}
  /\ matches = <<>>
  /\ results = NoResults
  /\ cursor = 0
  /\ lookup = NoLookup
  /\ page = <<>>
  /\ document \in {<<>>, CapturePage}
  /\ customSelectors = <<>>
  /\ PreprocessIdle
  /\ ParallelIdle
  /\ BrowserIdle
  /\ NavigationIdle
  /\ WaitIdle
  /\ ViewportIdle

\* const browser = await getBrowser(); const page = await browser.newPage();
\* a rejection of either leaves the function before the try
OpenPage ==
  /\ capture.stage \in {"getBrowser", "newPage"}
  /\ \E outcome \in {"resolves", "rejects"} :
       capture' = IF outcome = "rejects" THEN CaptureAt("rejected", 0, capture)
                  ELSE IF capture.stage = "getBrowser" THEN CaptureAt("newPage", 0, capture)
                  ELSE [CaptureAt("try", 1, capture) EXCEPT !.opened = @ + 1]
  /\ UNCHANGED <<pc, coreVars, preprocessVars, routeVars, parallelVars, browserVars, navigationVars, waitVars, viewportVars>>

\* after the last step of the try block comes the return, and the finally
Proceed(c) ==
  IF c.step = Len(CaptureSteps) THEN CaptureAt("finally", 0, c)
  ELSE CaptureAt("try", c.step + 1, c)

Thrown(c) == [CaptureAt("finally", 0, c) EXCEPT !.failed = TRUE]

\* one awaited call of the try block other than the callback; page.screenshot
\* is invoked whether it then resolves or rejects
TryStep ==
  /\ capture.stage = "try"
  /\ CaptureSteps[capture.step] # "beforeCapture"
  /\ \E outcome \in StepOutcomes(CaptureSteps[capture.step]) :
       capture' =
         IF outcome = "rejects"
         THEN Thrown([capture EXCEPT !.screenshots =
                        IF CaptureSteps[capture.step] = "page.screenshot" THEN @ + 1 ELSE @])
         ELSE Proceed([capture EXCEPT !.screenshots =
                         IF CaptureSteps[capture.step] = "page.screenshot" THEN @ + 1 ELSE @])
  /\ UNCHANGED <<pc, coreVars, preprocessVars, routeVars, parallelVars, browserVars, navigationVars, waitVars, viewportVars>>

\* if (options.beforeCapture && typeof options.beforeCapture === 'function')
\* the callback is called, else the step is skipped
CallbackStart ==
  /\ capture.stage = "try"
  /\ CaptureSteps[capture.step] = "beforeCapture"
  /\ ~capture.called
  /\ IF capture.beforeCapture
     THEN /\ capture' = [capture EXCEPT !.called = TRUE]
          /\ pc' = "beforeCapture"
     ELSE /\ capture' = Proceed(capture)
          /\ UNCHANGED pc
  /\ UNCHANGED <<coreVars, preprocessVars, routeVars, parallelVars, browserVars, navigationVars, waitVars, viewportVars>>

CallbackNotAwaited(position) == TRUE

\* callbackResult = await options.beforeCapture(page, viewport): the call goes
\* on when the callback has settled
CallbackAwaited(position) == position \in {"done", "threw"}

CallbackSettled ==
  /\ capture.stage = "try"
  /\ CaptureSteps[capture.step] = "beforeCapture"
  /\ capture.called
  /\ CallbackAwaited(pc)
  /\ capture' = IF pc = "threw" THEN Thrown(capture) ELSE Proceed(capture)
  /\ UNCHANGED <<pc, coreVars, preprocessVars, routeVars, parallelVars, browserVars, navigationVars, waitVars, viewportVars>>

ClosesAfterSuccessOnly(failed) == ~failed

\* finally { await page.close(); }: on every way out of the try block
ClosesPage(failed) == TRUE

\* the finally block, then the call settles: it rejects if the try block
\* threw or page.close() rejects
Finally ==
  /\ capture.stage = "finally"
  /\ \E outcome \in {"resolves", "rejects"} :
       capture' =
         [ CaptureAt(IF capture.failed \/ (ClosesPage(capture.failed) /\ outcome = "rejects")
                     THEN "rejected" ELSE "resolved", 0, capture)
           EXCEPT !.closed = IF ClosesPage(capture.failed) THEN @ + 1 ELSE @ ]
  /\ UNCHANGED <<pc, coreVars, preprocessVars, routeVars, parallelVars, browserVars, navigationVars, waitVars, viewportVars>>

\* the steps of captureScreenshot, and those of the callback it awaits
NextCapture == OpenPage \/ TryStep \/ CallbackStart \/ CallbackSettled \/ Finally \/ NextRoute

SpecCapture == InitCapture /\ [][NextCapture]_vars

(***************************************************************************)
(* filterAdsByViewport (detector): document is the live page at filter     *)
(* time, one entry per element a selector of the model selects.            *)
(***************************************************************************)
MaxViewportAds == 2

MaxLiveElements == 2

\* an element of the live page: the selector that selects it and its
\* getBoundingClientRect()
Live(selector, rect) == [selector |-> selector, rect |-> rect]

\* a selector document.querySelector rejects with a SyntaxError
InvalidSelectors == {"div["}

FirstOf(hits) == IF hits = <<>> THEN <<>> ELSE <<hits[1]>>

\* document.querySelector(ad.selector): <<element>>, or <<>> for null
querySelector(doc, selector) ==
  FirstOf(SelectSeq(doc, LAMBDA e : e.selector = selector))

AnySize(rect) == TRUE

\* rect.width > 0 && rect.height > 0
hasSize(rect) == rect.width > 0 /\ rect.height > 0

\* isVerticallyVisible && isHorizontallyVisible && hasSize, with
\* rect.bottom = top + height and rect.right = left + width
VisibleRect(rect, viewportDimensions) ==
  /\ rect.top < viewportDimensions.height /\ rect.top + rect.height > 0
  /\ rect.left < viewportDimensions.width /\ rect.left + rect.width > 0
  /\ hasSize(rect)

\* if (!element) return false; ...
VisibleElement(found, viewportDimensions) ==
  IF found = <<>> THEN FALSE ELSE VisibleRect(found[1].rect, viewportDimensions)

\* the callback of adsData.filter: try { ... } catch { return false; }
KeepsAd(doc, viewportDimensions, ad) ==
  IF ad.selector \in InvalidSelectors THEN FALSE
  ELSE VisibleElement(querySelector(doc, ad.selector), viewportDimensions)

\* if (!viewport || !ads.length) return ads; <<>> is no viewport
filterAdsByViewport(doc, ads, viewportDimensions) ==
  IF viewportDimensions = <<>> \/ Len(ads) = 0 THEN ads
  ELSE SelectSeq(ads, LAMBDA ad : KeepsAd(doc, viewportDimensions, ad))

\* the viewports of the calls: none, and 1280x800
Viewports == {<<>>, [width |-> 1280, height |-> 800]}

\* live boxes: in the viewport, cut by its top edge, ending at its top edge,
\* starting at its bottom edge, cut by its right edge, and without width
LiveBoxes ==
  { Box(0, 0, 300, 250), Box(0, -100, 300, 250), Box(0, -250, 300, 250),
    Box(0, 800, 300, 250), Box(1200, 0, 300, 250), Box(10, 10, 0, 250) }

LiveElements == {Live(s, b) : s \in {"#ad-1", ".ad-slot"}, b \in LiveBoxes}

\* the placements handed to the filter, as detected earlier
ViewportAds ==
  { [selector |-> "#ad-1", rect |-> Box(0, 0, 300, 250), type |-> "iframe"],
    [selector |-> ".ad-slot", rect |-> Box(0, 300, 300, 250), type |-> "css"],
    [selector |-> "div[", rect |-> Box(0, 600, 728, 90), type |-> "custom"] }

DetectedEarlier(list) ==
  [i \in 1..Len(list) |-> Placement(i, list[i].selector, list[i].rect, list[i].type, "-")]

InitViewport ==
  /\ pc = "filter"
  /\ placements \in {DetectedEarlier(l) : l \in ListsOf(ViewportAds, MaxViewportAds)}
  /\ document \in ListsOf(LiveElements, MaxLiveElements)
  /\ viewport \in Viewports
  /\ visibleAds = <<>>
  /\ sizeInput = null
  /\ parsed = null
  /\ clientAds = <<>>
  /\ matches = <<>>
  /\ results = NoResults
  /\ cursor = 0
  /\ lookup = NoLookup
  /\ page = <<>>
  /\ customSelectors = <<>>
  /\ PreprocessIdle
  /\ ParallelIdle
  /\ BrowserIdle
  /\ NavigationIdle
  /\ CaptureIdle
  /\ WaitIdle

FilterAdsByViewportCall ==
  /\ pc = "filter"
  /\ pc' = "filtered"
  /\ visibleAds' = filterAdsByViewport(document, placements, viewport)
  /\ UNCHANGED <<viewport, coreVars, preprocessVars, routeVars, parallelVars, browserVars, navigationVars, captureVars, waitVars>>

NextViewport == FilterAdsByViewportCall

SpecViewport == InitViewport /\ [][NextViewport]_vars

(***************************************************************************)
(* waitForNetworkSettled (services/puppeteerService.js): the closure of    *)
(* one call.  Time is in milliseconds from startTime; the page's network   *)
(* events reach the handlers while the listeners are attached, and the     *)
(* interval callback runs when its next time has come.                     *)
(***************************************************************************)
\* the step in which the clock of the model advances
TimeStep == 100

\* the page has at most this many requests open
MaxInflight == 4

\* setInterval(..., 300)
CheckInterval == 300

\* inflight <= 2
QuietInflight == 2

\* the idleTime and timeout arguments of the calls of the model
IdleTimes == {300, 500}

Timeouts == {600, 1000}

UnclampedDecrement(n) == n - 1

\* Math.max(0, inflight - 1)
ClampedDecrement(n) == IF n - 1 > 0 THEN n - 1 ELSE 0

InitWait ==
  /\ pc = "waiting"
  /\ \E idle \in IdleTimes, limit \in Timeouts :
       netWait = [ idleTime |-> idle, timeout |-> limit, inflight |-> 0, lastActivityTime |-> 0,
                   now |-> 0, nextCheck |-> CheckInterval, timer |-> TRUE,
                   listeners |-> {"request", "response", "requestfailed"},
                   resolved |-> "pending", lastEvent |-> 0, lastEventKind |-> "none" ]
  /\ sizeInput = null
  /\ parsed = null
  /\ placements = <<>>
  /\ clientAds = <<>>
  /\ matches = <<>>
  /\ results = NoResults
  /\ cursor = 0
  /\ lookup = NoLookup
  /\ page = <<>>
  /\ PreprocessIdle
  /\ RouteIdle
  /\ ParallelIdle
  /\ BrowserIdle
  /\ NavigationIdle
  /\ CaptureIdle
  /\ ViewportIdle

\* lastEvent, lastEventKind: when the page last emitted one of the three
\* events to a handler, and which (kept for the properties)
Emitted(kind, w) == [w EXCEPT !.lastEvent = w.now, !.lastEventKind = kind]

\* onRequest: inflight++; lastActivityTime = Date.now()
OnRequest ==
  /\ "request" \in netWait.listeners
  /\ netWait.inflight < MaxInflight
  /\ netWait' = Emitted("request", [netWait EXCEPT !.inflight = @ + 1, !.lastActivityTime = netWait.now])
  /\ UNCHANGED <<pc, coreVars, preprocessVars, routeVars, parallelVars, browserVars, navigationVars, captureVars, viewportVars>>

\* if (inflight <= 2) lastActivityTime = Date.now()
Responded(w) ==
  IF w.inflight <= QuietInflight THEN [w EXCEPT !.lastActivityTime = w.now] ELSE w

\* onResponse: inflight = Math.max(0, inflight - 1); ...
OnResponse ==
  /\ "response" \in netWait.listeners
  /\ netWait' = Emitted("response", Responded([netWait EXCEPT !.inflight = ClampedDecrement(@)]))
  /\ UNCHANGED <<pc, coreVars, preprocessVars, routeVars, parallelVars, browserVars, navigationVars, captureVars, viewportVars>>

\* onFailed: inflight = Math.max(0, inflight - 1)
OnFailed ==
  /\ "requestfailed" \in netWait.listeners
  /\ netWait' = Emitted("requestfailed", [netWait EXCEPT !.inflight = ClampedDecrement(@)])
  /\ UNCHANGED <<pc, coreVars, preprocessVars, routeVars, parallelVars, browserVars, navigationVars, captureVars, viewportVars>>

\* time passes until the interval callback is due
Elapse ==
  /\ netWait # <<>>
  /\ netWait.timer
  /\ netWait.now < netWait.nextCheck
  /\ netWait' = [netWait EXCEPT !.now = @ + TimeStep]
  /\ UNCHANGED <<pc, coreVars, preprocessVars, routeVars, parallelVars, browserVars, navigationVars, captureVars, viewportVars>>

\* cleanup(): clearInterval(checkInterval) and the three page.off calls
Cleanup(w, value) == [w EXCEPT !.timer = FALSE, !.listeners = {}, !.resolved = value]

\* the interval callback: settled, else timed out, else wait on
IntervalCheck ==
  /\ netWait # <<>>
  /\ netWait.timer
  /\ netWait.now >= netWait.nextCheck
  /\ IF /\ netWait.inflight <= QuietInflight
        /\ netWait.now - netWait.lastActivityTime >= netWait.idleTime
     THEN netWait' = Cleanup(netWait, "true") /\ pc' = "resolved"
     ELSE IF netWait.now >= netWait.timeout
     THEN netWait' = Cleanup(netWait, "false") /\ pc' = "resolved"
     ELSE netWait' = [netWait EXCEPT !.nextCheck = @ + CheckInterval] /\ UNCHANGED pc
  /\ UNCHANGED <<coreVars, preprocessVars, routeVars, parallelVars, browserVars, navigationVars, captureVars, viewportVars>>

NextWait == OnRequest \/ OnResponse \/ OnFailed \/ Elapse \/ IntervalCheck

SpecWait == InitWait /\ [][NextWait]_vars

\* time passes and the event loop runs the interval callback when it is due
SpecWaitFair == SpecWait /\ WF_vars(Elapse) /\ WF_vars(IntervalCheck)

(***************************************************************************)
(* Properties                                                              *)
(***************************************************************************)
\* the matcher has returned or thrown
Returned == pc \in {"matched", "threw"}

\* the creatives and placements that are part of some match, by identity
MatchedClientAds == {matches[m].clientAd.ref : m \in DOMAIN matches}

MatchedPlacements == {matches[m].placement.ref : m \in DOMAIN matches}

\* C1: in the combined matches of one run (display matcher plus video
\* matcher) no placement object and no creative object is part of two matches.
NoReuse ==
  \A m, n \in DOMAIN matches :
    m # n => /\ matches[m].placement.ref # matches[n].placement.ref
             /\ matches[m].clientAd.ref # matches[n].clientAd.ref

\* two creatives of one declared size were matched in one job, each exactly
NoReuseWitness ==
  /\ pc = "done"
  /\ Len(matches) = 2
  /\ matches[1].clientAd.size = matches[2].clientAd.size
  /\ matches[1].matchType = "exact"
  /\ matches[2].matchType = "exact"

\* C2: when a placement and a creative of exactly its size are both among
\* the inputs, the placement is not given to a creative of another size
\* while the creative of its size stays unmatched.
ExactBeforeTolerance ==
  pc = "matched" =>
    \A i \in DOMAIN placements, j \in DOMAIN clientAds :
      parseSize(clientAds[j].size) = placements[i].size =>
        ~ /\ j \notin MatchedClientAds
          /\ \E m \in DOMAIN matches :
               /\ matches[m].placement.ref = i
               /\ parseSize(matches[m].clientAd.size) # placements[i].size

\* the standard sizes in pixels, in the table's order
StandardSizes ==
  << Size(300, 250), Size(728, 90), Size(300, 600), Size(320, 50),
     Size(320, 100), Size(160, 600), Size(970, 250), Size(970, 90) >>

WithinPx(a, b, px) == Abs(a.width - b.width) <= px /\ Abs(a.height - b.height) <= px

\* the label of the first standard size within 20px of size is label
ResolvesTo(size, label) ==
  \E k \in DOMAIN StandardSizes :
    /\ WithinPx(size, StandardSizes[k], 20)
    /\ \A l \in 1..(k - 1) : ~WithinPx(size, StandardSizes[l], 20)
    /\ label = Str(SizeString(StandardSizes[k].width, StandardSizes[k].height))

\* both dimensions within 15% of the larger one and the ratios within 0.15, relative
Within15Percent(a, b) ==
  /\ 20 * Abs(a.width - b.width) <= 3 * Max(a.width, b.width)
  /\ 20 * Abs(a.height - b.height) <= 3 * Max(a.height, b.height)
  /\ a.height > 0
  /\ b.height > 0
  /\ Max(a.width * b.height, b.width * a.height) > 0
  /\ 20 * Abs(a.width * b.height - b.width * a.height)
       <= 3 * Max(a.width * b.height, b.width * a.height)

\* C3: every match satisfies the predicate of the tier it is tagged with
\* (exact: equal width and height; iab-tolerance: the placement resolves
\* within 20px to the creative's size string; flexible-tolerance: within
\* 15% in both dimensions and 0.15 in ratio), so a pair that satisfies none
\* of the three is never matched.
MatchesSatisfyTier ==
  \A m \in DOMAIN matches :
    LET placementSize == matches[m].placement.size
        declared == parseSize(matches[m].clientAd.size)
    IN  /\ declared # null
        /\ \/ /\ matches[m].matchType = "exact"
              /\ placementSize = declared
           \/ /\ matches[m].matchType = "iab-tolerance"
              /\ ResolvesTo(placementSize, matches[m].clientAd.size)
           \/ /\ matches[m].matchType = "flexible-tolerance"
              /\ Within15Percent(placementSize, declared)

\* one run produced a standard-size match and a flexible match
MatchesSatisfyTierWitness ==
  /\ pc = "matched"
  /\ \E m, n \in DOMAIN matches :
       /\ matches[m].matchType = "iab-tolerance"
       /\ matches[n].matchType = "flexible-tolerance"

\* the preconditions of C4
DistinctSelectors ==
  \A i, j \in DOMAIN placements : i # j => placements[i].selector # placements[j].selector

DistinctUrls ==
  /\ \A j \in DOMAIN clientAds : clientAds[j].url # "<undefined>"
  /\ \A i, j \in DOMAIN clientAds : i # j => clientAds[i].url # clientAds[j].url

AllSizesParse == \A j \in DOMAIN clientAds : parseSize(clientAds[j].size) # null

\* C4: with pairwise distinct selectors, pairwise distinct URLs and
\* parseable sizes, when k creatives declare size S and at least k
\* placements measure exactly S, each of the k creatives is matched, with
\* type exact, to a placement of exactly size S of its own.
ExactCompleteness ==
  (Returned /\ DistinctSelectors /\ DistinctUrls /\ AllSizesParse) =>
    \A j \in DOMAIN clientAds :
      LET S == parseSize(clientAds[j].size)
          declaring == {c \in DOMAIN clientAds : parseSize(clientAds[c].size) = S}
          measuring == {i \in DOMAIN placements : placements[i].size = S}
      IN  Cardinality(measuring) >= Cardinality(declaring) =>
            /\ \E m \in DOMAIN matches :
                 /\ matches[m].clientAd.ref = j
                 /\ matches[m].matchType = "exact"
                 /\ matches[m].placement.size = S
            /\ \A m, n \in DOMAIN matches :
                 m # n => matches[m].placement.ref # matches[n].placement.ref

\* two creatives of one size met two placements of that size
ExactCompletenessWitness ==
  /\ pc = "matched"
  /\ DistinctSelectors /\ DistinctUrls /\ AllSizesParse
  /\ Len(matches) = 2
  /\ matches[1].matchType = "exact"
  /\ matches[2].matchType = "exact"
  /\ matches[1].clientAd.size = matches[2].clientAd.size
  /\ matches[1].placement.selector # matches[2].placement.selector

\* a placement and a creative as the request describes them, without identity
PairOf(match) ==
  << match.placement.selector, match.placement.size, match.clientAd.url, match.clientAd.size >>

\* what a call gives: whether it threw, and the set of pairs it returned
Outcome(result) ==
  [threw |-> result.threw, pairs |-> {PairOf(result.matches[m]) : m \in DOMAIN result.matches}]

Permuted(list) ==
  {[i \in DOMAIN list |-> list[f[i]]] : f \in Permutations(DOMAIN list)}

\* every reordering of the two input lists gives the outcome this run gave
SameUnderPermutation ==
  \A p \in Permuted(placements), c \in Permuted(clientAds) :
    Outcome(matchAdsToplacements(p, c)) =
      [threw |-> pc = "threw", pairs |-> {PairOf(matches[m]) : m \in DOMAIN matches}]

Area(size) == size.width * size.height

\* no two placements of one pixel area, no two creatives of one pixel area
NoAreaTies ==
  /\ \A i, j \in DOMAIN placements :
       i # j => Area(placements[i].size) # Area(placements[j].size)
  /\ \A i, j \in DOMAIN clientAds :
       i # j => Area(parseSize(clientAds[i].size)) # Area(parseSize(clientAds[j].size))

\* C5 as stated: for every permutation of the placements and of the
\* creatives the matcher returns the same set of (placement, creative) pairs.
OrderIndependent == Returned => SameUnderPermutation

\* C5 as amended: when every creative's size parses and neither list holds
\* two items of equal pixel area, every permutation of the placements and
\* of the creatives gives the same set of pairs.
OrderIndependentWithoutTies ==
  (Returned /\ AllSizesParse /\ NoAreaTies) => SameUnderPermutation

\* two creatives and two placements, free of ties, were paired
OrderIndependentWitness ==
  /\ pc = "matched"
  /\ AllSizesParse
  /\ NoAreaTies
  /\ Len(placements) = 2
  /\ Len(clientAds) = 2
  /\ Len(matches) = 2

\* digits, a lowercase x, digits
IsSizePattern(s) ==
  \E i \in 2..(Len(s) - 1) :
    /\ s[i] = "x"
    /\ \A k \in (DOMAIN s) \ {i} : s[k] \in Digit

RECURSIVE TenTo(_)
TenTo(n) == IF n = 0 THEN 1 ELSE 10 * TenTo(n - 1)

RECURSIVE Encoded(_)
\* the integer a run of digits writes, most significant digit first
Encoded(run) ==
  IF run = <<>> THEN 0
  ELSE DigitValue(Head(run)) * TenTo(Len(run) - 1) + Encoded(Tail(run))

XIndex(s) == CHOOSE i \in DOMAIN s : s[i] = "x"

\* C6: parseSize returns null for every input that is not a string of
\* digits, a lowercase x and digits, and for a string of that form the
\* pair of integers its two digit runs encode.
ParseSizeTotal ==
  pc = "parsed" =>
    IF sizeInput.t = "string" /\ IsSizePattern(sizeInput.v)
    THEN parsed = [ width |-> Encoded(SubSeq(sizeInput.v, 1, XIndex(sizeInput.v) - 1)),
                    height |-> Encoded(SubSeq(sizeInput.v, XIndex(sizeInput.v) + 1,
                                              Len(sizeInput.v))) ]
    ELSE parsed = null

\* '1920x1080' was parsed
ParseSizeTotalWitness ==
  /\ pc = "parsed"
  /\ sizeInput = Str(<<"1","9","2","0","x","1","0","8","0">>)
  /\ parsed = Size(1920, 1080)

\* C7: one creative of a standard size S and one placement within 20px of S
\* in both dimensions, not equal to S, give exactly one match, tagged
\* iab-tolerance or flexible-tolerance.
NearStandardSizeMatches ==
  (/\ pc = "matched"
   /\ Len(placements) = 1
   /\ Len(clientAds) = 1
   /\ \E k \in DOMAIN StandardSizes :
        /\ clientAds[1].size =
             Str(SizeString(StandardSizes[k].width, StandardSizes[k].height))
        /\ WithinPx(placements[1].size, StandardSizes[k], 20)
        /\ placements[1].size # StandardSizes[k])
    => /\ Len(matches) = 1
       /\ matches[1].matchType \in {"iab-tolerance", "flexible-tolerance"}

\* a 302x248 placement met a 300x250 creative
NearStandardSizeWitness ==
  /\ pc = "matched"
  /\ placements[1].size = Size(302, 248)
  /\ clientAds[1].size = Str(SizeString(300, 250))
  /\ Len(matches) = 1
  /\ matches[1].matchType = "iab-tolerance"

\* C8: in the matches of processAdReplacement a creative of type video is
\* paired only with a placement of type video and any other creative only
\* with a placement that is not of type video.
PartitionByKind ==
  \A m \in DOMAIN matches :
    (matches[m].clientAd.type = "video") <=> (matches[m].placement.type = "video")

\* one job matched a video creative and a display creative
PartitionByKindWitness ==
  /\ pc = "done"
  /\ \E m, n \in DOMAIN matches :
       /\ matches[m].clientAd.type = "video"
       /\ matches[n].clientAd.type # "video"

\* the placement's ratio is classified 16:9: within 0.1 of 16/9
Is16by9(size) ==
  /\ size.width # 0
  /\ size.height # 0
  /\ 10 * Abs(9 * size.width - 16 * size.height) <= 9 * size.height

EligibleForVideo(placement) ==
  /\ placement.type = "video"
  /\ Is16by9(placement.size) \/ placement.subtype \in {"native", "iframe"}

\* C9: the video matcher pairs a creative only with an eligible placement
\* (16:9, or subtype native or iframe, whatever its ratio) and leaves a
\* creative unmatched only when no eligible placement is left unused.
VideoEligibility ==
  pc = "matched" =>
    /\ \A m \in DOMAIN matches : EligibleForVideo(matches[m].placement)
    /\ \A j \in DOMAIN clientAds :
         j \notin MatchedClientAds =>
           \A i \in DOMAIN placements :
             EligibleForVideo(placements[i]) =>
               \E m \in DOMAIN matches :
                 matches[m].placement.selector = placements[i].selector

\* a native placement that is not 16:9 was matched, a 4:3 container was not
VideoEligibilityWitness ==
  /\ pc = "matched"
  /\ \E m \in DOMAIN matches :
       /\ matches[m].placement.subtype = "native"
       /\ ~Is16by9(matches[m].placement.size)
  /\ \E i \in DOMAIN placements :
       /\ placements[i].subtype = "container"
       /\ ~Is16by9(placements[i].size)
       /\ i \notin MatchedPlacements

\* the entries recorded so far for selector s
EntriesFor(s) ==
  Cardinality({k \in DOMAIN results.successful : results.successful[k].selector = s})
    + Cardinality({k \in DOMAIN results.failed : results.failed[k].selector = s})

\* every match handled so far has exactly one entry, successful or failed
OneEntryPerMatch ==
  /\ Len(results.successful) + Len(results.failed) = cursor
  /\ pc = "done" => cursor = Len(matches)
  /\ \A m \in 1..cursor :
       EntriesFor(matches[m].placement.selector) =
         Cardinality({n \in 1..cursor :
                        matches[n].placement.selector = matches[m].placement.selector})

\* the last entry of failed is an 'Element not found' for the match just handled
LastFailedNotFound ==
  /\ results.failed # <<>>
  /\ results.failed[Len(results.failed)].selector = matches[cursor].placement.selector
  /\ results.failed[Len(results.failed)].error = "Element not found"

\* C10 as stated: one entry per match, and a match whose selector does not
\* resolve yields a failed entry with an 'Element not found' reason.
InjectorResilience ==
  /\ OneEntryPerMatch
  /\ (cursor > 0 /\ lookup.primary = "null") => LastFailedNotFound

\* C10 as amended: one entry per match, and a match whose selector does not
\* resolve, and for which the class-substring query tried for a selector
\* starting with '.' finds nothing either, yields a failed entry with an
\* 'Element not found' reason.
InjectorResilienceWithFallback ==
  /\ OneEntryPerMatch
  /\ (cursor > 0 /\ lookup.primary = "null" /\ lookup.fallback # "found")
       => LastFailedNotFound

\* the first of two matches failed as not found, the second was injected
InjectorResilienceWitness ==
  /\ pc = "done"
  /\ Len(matches) = 2
  /\ Len(results.failed) = 1
  /\ results.failed[1].selector = matches[1].placement.selector
  /\ results.failed[1].error = "Element not found"
  /\ Len(results.successful) = 1
  /\ results.successful[1].selector = matches[2].placement.selector

\* the resolution of the creative of turn i did not end with a creative
Unresolved(answer) == TurnOutcome(answer) \notin {"iframe-src", "html", "screenshot"}

\* C11: preprocessClientAds never rejects; a creative whose resolution fails
\* at any step is passed on as the original, unmodified creative, and every
\* creative of the list has its entry in the returned list.
PreprocessingIsolation ==
  /\ pc # "rejected"
  /\ \A i \in 1..Len(processedAds) :
       Unresolved(extraction[i]) => processedAds[i] = clientAds[i]
  /\ pc = "preprocessed" => Len(processedAds) = Len(clientAds)

\* the parts of C11 that do not depend on a rejection
IsolationUnlessRejected ==
  /\ \A i \in 1..Len(processedAds) :
       Unresolved(extraction[i]) => processedAds[i] = clientAds[i]
  /\ pc = "preprocessed" => Len(processedAds) = Len(clientAds)

\* a creative whose size string does not parse or whose url is empty or missing
Malformed(ad) == parseSize(ad.size) = null \/ ad.url \in {"<undefined>", ""}

WellFormed(clientAdList) == SelectSeq(clientAdList, LAMBDA ad : ~Malformed(ad))

NoMalformedMatched == \A m \in DOMAIN matches : ~Malformed(matches[m].clientAd)

OthersMatchedAsUsual ==
  matches = matchAdsToplacements(placements, WellFormed(clientAds)).matches

\* C12: a creative whose size string does not parse, or whose url is empty or
\* missing, is in no match and does not make matchAdsToplacements throw, and
\* the matches are those the matcher gives for the other creatives alone.
MalformedAreSilentNonMatches ==
  Returned =>
    /\ pc # "threw"
    /\ NoMalformedMatched
    /\ OthersMatchedAsUsual

\* C13: every placement detectAds returns has size.width > 0 and
\* size.height > 0; an ad-server iframe with a zero width or height is not
\* returned.
DetectedSizesPositive ==
  pc = "detected" =>
    \A n \in DOMAIN placements : placements[n].size.width > 0 /\ placements[n].size.height > 0

\* C14: no two placements of the list detectAds returns have the same selector.
DetectedSelectorsDistinct ==
  pc = "detected" =>
    \A m, n \in DOMAIN placements : m # n => placements[m].selector # placements[n].selector

\* the bounding box of the element a placement was made from
BoxOf(placement) == document[placement.ref].rect

\* C15: no two placements of the list detectAds returns come from one
\* bounding box, whichever selectors, patterns or strategies produced them.
OnePlacementPerBox ==
  pc = "detected" =>
    \A m, n \in DOMAIN placements : m # n => BoxOf(placements[m]) # BoxOf(placements[n])

\* the measured size of a placement made from a custom selector
MeasuredSize(placement) == Size(placement.width, placement.height)

\* creative j and placement i of the request have one size and neither is in a match
LeftUnmatched(i, j) ==
  /\ parseSize(clientAds[j].size) = MeasuredSize(placements[i])
  /\ \A m \in DOMAIN matches :
       matches[m].placement.ref # placements[i].ref /\ matches[m].clientAd.ref # clientAds[j].ref

\* C16: with custom selectors and creatives processAdReplacement does not
\* throw, and when it has returned no creative and element of one size are
\* both left out of the matches.
CustomSelectorsServed ==
  Len(customSelectors) > 0 =>
    /\ pc # "threw"
    /\ pc = "done" =>
         \A i \in DOMAIN placements, j \in DOMAIN clientAds :
           clientAds[j].type # "video" => ~LeftUnmatched(i, j)

\* the processor calls in flight: the workers awaiting their processor
InFlight == {w \in DOMAIN workers : workers[w].state = "awaiting"}

\* C17: processInParallel never has more than min(maxConcurrent, number of
\* items) processor calls in flight, however the calls resolve or reject.
ConcurrencyCap ==
  /\ Cardinality(InFlight) <= maxConcurrent
  /\ Cardinality(InFlight) <= items

\* with the default limit and more items than the limit, one call has
\* failed, every item has been taken and three calls are in flight
ConcurrencyCapWitness ==
  /\ pc = "processing"
  /\ maxConcurrent = DefaultMaxConcurrent
  /\ items > maxConcurrent
  /\ currentIndex = items
  /\ \E i \in DOMAIN rawResults : rawResults[i].kind = "error"
  /\ Cardinality(InFlight) = maxConcurrent

\* the browsers started by the getBrowser calls whose launch did not reject
Launched == {callers[c].launch : c \in {d \in DOMAIN callers : callers[d].launch > 0 /\ callers[d].state # "rejected"}}

\* the browsers the getBrowser calls have returned
Received == {callers[c].got : c \in {d \in DOMAIN callers : callers[d].got > 0}}

\* C18: while no closeBrowser has run, concurrent getBrowser calls start at
\* most one browser and every caller receives the same instance.
SingleSharedBrowser ==
  closes = 0 =>
    /\ Cardinality(Launched) <= 1
    /\ Cardinality(Received) <= 1

\* the positions of the page.goto calls in the record of one navigateWithRetry
GotoCalls == {k \in DOMAIN navigation : navigation[k].call = "goto"}

\* a failure of the network/timeout class: one of the retryable error types
\* is part of its message
Retryable(k) ==
  /\ navigation[k].outcome # "ok"
  /\ isRetryableError(navigation[k].outcome)

\* the goto at k is a retry: it comes right after a delay of retryDelayMs,
\* and that delay right after a goto that failed retryably
RetryAt(k) ==
  /\ k >= 3
  /\ navigation[k - 1] = Delayed(retryDelayMs)
  /\ navigation[k - 2].call = "goto"
  /\ Retryable(k - 2)

\* C19: navigateWithRetry with maxRetries = n calls page.goto at most n + 1
\* times; every call but the first follows a wait of retryDelayMs after a
\* retryable failure; a failure that is not retryable is rethrown at once and
\* a success returns at once; with the defaults a retryable failure of the
\* first load is followed by exactly one retry, 5000 ms later.
BoundedRetry ==
  /\ Cardinality(GotoCalls) <= maxRetries + 1
  /\ \A k \in GotoCalls : k = 1 \/ RetryAt(k)
  /\ \A k \in GotoCalls :
       navigation[k].outcome # "ok" /\ ~Retryable(k) =>
         k = Len(navigation) /\ pc = "threw" /\ lastError = navigation[k].outcome
  /\ \A k \in GotoCalls : navigation[k].outcome = "ok" => k = Len(navigation) /\ pc = "navigated"
  /\ pc = "threw" => navigation # <<>> /\ lastError = navigation[Len(navigation)].outcome
  /\ ( /\ maxRetries = DefaultMaxRetries
       /\ retryDelayMs = DefaultRetryDelayMs
       /\ pc \in {"navigated", "threw"}
       /\ Retryable(1) )
     => /\ Cardinality(GotoCalls) = 2
        /\ navigation[2] = Delayed(5000)

\* with the defaults the first load timed out, the call waited 5000 ms and the
\* retry succeeded
BoundedRetryWitness ==
  /\ pc = "navigated"
  /\ maxRetries = DefaultMaxRetries
  /\ navigation = << Went("Navigation timeout of 60000 ms exceeded"), Delayed(DefaultRetryDelayMs), Went("ok") >>

\* C20: the value a matcher run returns holds every placement and every
\* creative the run was given: each is part of a match or of the residue
\* that the result keeps beside the matches.
ResultRetainsResidue ==
  pc = "matched" =>
    /\ \A i \in DOMAIN placements : placements[i].ref \in MatchedPlacements
    /\ \A j \in DOMAIN clientAds : clientAds[j].ref \in MatchedClientAds

\* the report of a finished job
Report == Returned_processAdReplacement(results, matches)

\* the tier of a display match is its matchType; a video match has none
TierOf(m) == IF m.isVideo THEN "video" ELSE m.matchType

\* an entry states the tier if it has a field that holds it
StatesTier(entry, tier) ==
  \E f \in DOMAIN entry : f \in {"matchType", "tier"} /\ entry[f] = tier

\* C21: in the report of a finished job every match has an entry that is
\* successful, with the render size applied, or failed, and the report states
\* for every match the tier that produced it.
ReportStatesSizeOutcomeAndTier ==
  pc = "done" =>
    /\ Len(Report.successful) + Len(Report.failed) = Len(matches)
    /\ \A k \in DOMAIN Report.successful : "renderedSize" \in DOMAIN Report.successful[k]
    /\ \A m \in DOMAIN matches :
         \/ StatesTier(Report.matches[m], TierOf(matches[m]))
         \/ \E k \in DOMAIN Report.successful :
              /\ Report.successful[k].selector = matches[m].placement.selector
              /\ StatesTier(Report.successful[k], TierOf(matches[m]))
         \/ \E k \in DOMAIN Report.failed :
              /\ Report.failed[k].selector = matches[m].placement.selector
              /\ StatesTier(Report.failed[k], TierOf(matches[m]))

\* the part of C21 that holds: one entry per match, successful with the
\* render size or failed
ReportStatesSizeAndOutcome ==
  pc = "done" =>
    /\ Len(Report.successful) + Len(Report.failed) = Len(matches)
    /\ \A k \in DOMAIN Report.successful : "renderedSize" \in DOMAIN Report.successful[k]

\* C22: in one page job nothing is matched or injected before detection has
\* returned, nothing is injected before all matching has finished, and
\* page.screenshot is not invoked before the beforeCapture callback, with
\* every injection and the wait after them, has resolved.
StageOrdering ==
  /\ pc \in {"idle", "beforeCapture"} => matches = <<>> /\ cursor = 0 /\ page = <<>>
  /\ pc \in {"start", "match"} => cursor = 0 /\ page = <<>>
  /\ (capture # <<>> /\ capture.screenshots > 0 /\ capture.called) =>
       pc = "done" /\ cursor = Len(matches)

\* the screenshot was taken after two creatives were injected
StageOrderingWitness ==
  /\ capture # <<>>
  /\ capture.stage = "resolved"
  /\ capture.screenshots = 1
  /\ pc = "done"
  /\ Len(matches) = 2
  /\ cursor = 2
  /\ Len(results.successful) = 2

\* C28: the page captureScreenshot opened is closed exactly once when the
\* call has settled, whichever awaited call rejected, and it is never closed
\* twice or without having been opened.
PageClosedOnce ==
  capture # <<>> =>
    /\ capture.closed <= capture.opened
    /\ capture.stage \in {"resolved", "rejected"} => capture.closed = capture.opened
    /\ capture.opened <= 1

\* the callback threw, the call rejected and its page was closed
PageClosedOnceWitness ==
  /\ capture # <<>>
  /\ capture.stage = "rejected"
  /\ pc = "threw"
  /\ capture.opened = 1
  /\ capture.closed = 1

Least(a, b) == IF a <= b THEN a ELSE b

\* the area of the part of the box that lies in the viewport rectangle
OverlapArea(rect, vp) ==
  Max(0, Least(rect.left + rect.width, vp.width) - Max(rect.left, 0))
    * Max(0, Least(rect.top + rect.height, vp.height) - Max(rect.top, 0))

\* the selector of the placement resolves on the live page, and the box of
\* the element it resolves to has width and height and overlaps the viewport
StillInView(ad) ==
  /\ ad.selector \notin InvalidSelectors
  /\ \E k \in DOMAIN document :
       /\ document[k].selector = ad.selector
       /\ \A j \in 1..(k - 1) : document[j].selector # ad.selector
       /\ document[k].rect.width * document[k].rect.height > 0
       /\ OverlapArea(document[k].rect, viewport) > 0

\* C25: for a non-empty list and a viewport, filterAdsByViewport returns the
\* input placements, in input order, whose selector resolves to a live box of
\* non-zero width and height that overlaps the viewport; the others are
\* dropped.
ViewportFilterExact ==
  (pc = "filtered" /\ viewport # <<>> /\ placements # <<>>) =>
    visibleAds = SelectSeq(placements, StillInView)

\* of two placements the first was kept, its box cut by the viewport's top
\* edge, and the second dropped, its selector being rejected by the page
ViewportFilterExactWitness ==
  /\ pc = "filtered"
  /\ viewport # <<>>
  /\ Len(placements) = 2
  /\ visibleAds = <<placements[1]>>
  /\ placements[2].selector \in InvalidSelectors
  /\ \E k \in DOMAIN document :
       document[k] = Live(placements[1].selector, Box(0, -100, 300, 250))

PlacementArea(placement) == placement.size.width * placement.size.height

\* the declared pixel area of a creative whose size parses
DeclaredArea(clientAd) == parseSize(clientAd.size).width * parseSize(clientAd.size).height

\* the predicate of the tier a display match was made in
TierPredicate(tier, placement, clientAd) ==
  CASE tier = "exact" -> placement.size = parseSize(clientAd.size)
    [] tier = "iab-tolerance" -> matchIABSize(placement.size.width, placement.size.height, 5) = clientAd.size
    [] tier = "flexible-tolerance" ->
         /\ sizesMatchWithTolerance(placement.size, parseSize(clientAd.size), 50)
         /\ aspectRatiosMatch(placement.size, parseSize(clientAd.size), Fraction(15, 100))

\* the placement objects consumed by the matches before the m-th
ConsumedBefore(m) == {matches[k].placement.ref : k \in 1..(m - 1)}

\* the m-th match took the first fitting placement: every larger placement
\* that satisfies the tier's predicate for its creative was consumed before
TookFirstFit(m) ==
  \A i \in DOMAIN placements :
    ( /\ PlacementArea(placements[i]) > PlacementArea(matches[m].placement)
      /\ TierPredicate(matches[m].matchType, placements[i], matches[m].clientAd) )
    => placements[i].ref \in ConsumedBefore(m)

\* within a tier the matches were made in descending order of the
\* creatives' declared area
VisitedLargestFirst ==
  \A m, n \in DOMAIN matches :
    (m < n /\ matches[m].matchType = matches[n].matchType)
      => DeclaredArea(matches[m].clientAd) >= DeclaredArea(matches[n].clientAd)

\* no creative whose size parses is left without a placement while a
\* placement that no match consumed satisfies a tier's predicate for it
NoFitLeftOver ==
  \A j \in DOMAIN clientAds, i \in DOMAIN placements :
    ( /\ parseSize(clientAds[j].size) # null
      /\ clientAds[j].ref \notin MatchedClientAds
      /\ placements[i].ref \notin MatchedPlacements )
    => \A tier \in {"exact", "iab-tolerance", "flexible-tolerance"} :
         ~TierPredicate(tier, placements[i], clientAds[j])

\* C23: within each tier the creatives are visited in descending order of
\* declared area, each takes the first not yet consumed placement, in
\* descending order of measured area, that satisfies the tier's predicate,
\* and both are consumed.
GreedyFirstFit ==
  pc = "matched" =>
    /\ VisitedLargestFirst
    /\ \A m \in DOMAIN matches : TookFirstFit(m)
    /\ NoFitLeftOver

\* no two placements share a selector and no two creatives a url
NoKeyCollision ==
  /\ \A i, k \in DOMAIN placements : i # k => placements[i].selector # placements[k].selector
  /\ \A j, k \in DOMAIN clientAds : j # k => clientAds[j].url # clientAds[k].url

\* the order of C23 where the matcher's keys are unique and every size parses
GreedyFirstFitOnCleanInput ==
  (NoKeyCollision /\ AllSizesParse) => GreedyFirstFit

\* in the changes one injection made to its element every clearing of the
\* contents comes after the size lock
LockedBeforeCleared(changes) ==
  \A k \in DOMAIN changes :
    changes[k] = "clear" => \E j \in 1..(k - 1) : changes[j] = "lock size"

\* the match just handled was found and judged too small: the detected size,
\* or the measured one where the detected one is 0, is under 50 in a dimension
JudgedTooSmall ==
  /\ cursor > 0
  /\ lookup.evaluate = "returns"
  /\ ElementFound(matches[cursor].placement.selector, lookup)
  /\ LET target == matches[cursor].placement.size
     IN  \/ (IF target.width # 0 THEN target.width ELSE lookup.rect.width) < 50
         \/ (IF target.height # 0 THEN target.height ELSE lookup.rect.height) < 50

\* C24: in every injection the element's box is locked before its contents
\* are cleared, and an element judged too small is reported as failed with
\* its contents and style untouched.
LockBeforeClear ==
  /\ \A e \in DOMAIN page : LockedBeforeCleared(page[e].changes)
  /\ JudgedTooSmall =>
       /\ page[cursor].changes = <<>>
       /\ results.failed # <<>>
       /\ results.failed[Len(results.failed)].selector = matches[cursor].placement.selector
       /\ results.failed[Len(results.failed)].error = "Element too small"

\* one element was locked and then cleared, and the next was judged too small
\* and left untouched
LockBeforeClearWitness ==
  /\ JudgedTooSmall
  /\ cursor = 2
  /\ page[1].changes # <<>>
  /\ page[1].changes[1] = "lock size"
  /\ \E k \in DOMAIN page[1].changes : page[1].changes[k] = "clear"
  /\ page[2].changes = <<>>

\* the wait is over: the timer is cleared and no listener is attached
CleanedUp == ~netWait.timer /\ netWait.listeners = {}

\* the parts of C26 that do not depend on what counts as network activity:
\* the counter is never negative, a pending wait has not passed the first
\* check after the timeout, false comes only once the timeout has elapsed,
\* and a resolved wait has removed its timer and listeners
BoundedWaitSafety ==
  netWait # <<>> =>
    /\ netWait.inflight >= 0
    /\ netWait.resolved = "pending" => netWait.now <= netWait.timeout + CheckInterval + TimeStep
    /\ netWait.resolved = "false" => netWait.now >= netWait.timeout
    /\ netWait.resolved # "pending" => CleanedUp
    /\ netWait.resolved = "true" => netWait.inflight <= 2

NetworkWaitResolved == netWait # <<>> /\ netWait.resolved # "pending"

\* true was given with no request, response or request-failed event in the
\* last idleTime
QuietSinceLastEvent ==
  (netWait # <<>> /\ netWait.resolved = "true") =>
    netWait.now - netWait.lastEvent >= netWait.idleTime

\* true was given with no request started, and no response that left at most
\* 2 requests in flight, in the last idleTime
QuietSinceLastActivity ==
  (netWait # <<>> /\ netWait.resolved = "true") =>
    netWait.now - netWait.lastActivityTime >= netWait.idleTime

\* C26 as stated: the wait always resolves; true is given with at most 2
\* requests in flight and no network event for idleTime, false no later than
\* the first check after the timeout; the counter is never negative and the
\* resolved wait has removed its timer and its three listeners.
BoundedNetworkWait ==
  /\ [](BoundedWaitSafety /\ QuietSinceLastEvent)
  /\ <>NetworkWaitResolved

\* C26 as amended: as stated, except that the quiet period of idleTime is
\* counted from the last request started or the last response that left at
\* most 2 requests in flight; a failed request and a response that leaves
\* more than 2 in flight do not restart it.
BoundedNetworkWaitByActivity ==
  /\ [](BoundedWaitSafety /\ QuietSinceLastActivity)
  /\ <>NetworkWaitResolved

\* the wait resolved true right after a request had failed, long after the
\* last request was started
BoundedNetworkWaitWitness ==
  /\ netWait # <<>>
  /\ netWait.resolved = "true"
  /\ netWait.lastEventKind = "requestfailed"
  /\ netWait.now - netWait.lastEvent < netWait.idleTime
  /\ netWait.inflight = 2

\* every place of the results array holds the outcome of the processor call
\* for the item of that place
LinedUp ==
  /\ Len(rawResults) = items
  /\ \A i \in DOMAIN rawResults :
       /\ rawResults[i].kind \in {"result", "error"}
       /\ rawResults[i].item = i - 1

\* C27: processInParallel calls the processor exactly once for every item
\* index, stores that call's outcome at results[index], records a processor
\* that throws as an error entry without stopping the remaining items, and
\* resolves only after every item has been handled.
BatchIsolation ==
  /\ pc \in {"processing", "returned"} => \A i \in DOMAIN processorCalls : processorCalls[i] <= 1
  /\ pc = "returned" =>
       /\ \A i \in DOMAIN processorCalls : processorCalls[i] = 1
       /\ InFlight = {}
       /\ LinedUp

\* the first item's processor threw, the later ones were still processed,
\* and with fewer workers than items the call has returned
BatchIsolationWitness ==
  /\ pc = "returned"
  /\ items > maxConcurrent
  /\ maxConcurrent > 1
  /\ rawResults[1].kind = "error"
  /\ \A i \in 2..items : rawResults[i].kind = "result"

\* placement i carries the selector of another placement of the list
SharesSelector(i) == \E k \in DOMAIN placements : k # i /\ placements[k].selector = placements[i].selector

\* creative j carries the url of another creative of the list
SharesUrl(j) == \E k \in DOMAIN clientAds : k # j /\ clientAds[k].url = clientAds[j].url

\* placement i satisfies the predicate of some tier for creative j
SuitablePartner(i, j) ==
  /\ parseSize(clientAds[j].size) # null
  /\ \E tier \in {"exact", "iab-tolerance", "flexible-tolerance"} : TierPredicate(tier, placements[i], clientAds[j])

\* C29: a placement that shares its selector, or a creative that shares its
\* url, with another item of the input is matched like any other: when the
\* matcher has returned, no such item is left unmatched beside an unmatched
\* partner of suitable size.
EveryItemItsOwn ==
  pc = "matched" =>
    \A i \in DOMAIN placements, j \in DOMAIN clientAds :
      ( /\ SharesSelector(i) \/ SharesUrl(j)
        /\ placements[i].ref \notin MatchedPlacements
        /\ clientAds[j].ref \notin MatchedClientAds )
      => ~SuitablePartner(i, j)

\* without the restriction to items whose key collides: holds where the keys
\* are unique
EveryItemMatchedWhereKeysAreUnique ==
  (pc = "matched" /\ NoKeyCollision) =>
    \A i \in DOMAIN placements, j \in DOMAIN clientAds :
      (placements[i].ref \notin MatchedPlacements /\ clientAds[j].ref \notin MatchedClientAds)
        => ~SuitablePartner(i, j)

\* the creative's size parses
SizeParses(clientAd) == parseSize(clientAd.size) # null

\* the (placement, creative) pairs of a list of matches, in order
PairsOf(matchList) == [m \in DOMAIN matchList |-> <<matchList[m].placement.ref, matchList[m].clientAd.ref>>]

\* the sorted creatives without those whose size does not parse are in
\* descending order of declared area
ParseableSortedByArea ==
  LET sorted == SelectSeq(SortClientAds(clientAds), SizeParses)
  IN  \A m, n \in DOMAIN sorted : m < n => DeclaredArea(sorted[m]) >= DeclaredArea(sorted[n])

\* C30: a creative whose size does not parse has no influence on the
\* others: the pairs matchAdsToplacements returns are those it returns for
\* the list without the unparseable creatives, and the sort puts the
\* parseable creatives in descending order of area.
UnparseableHasNoInfluence ==
  pc = "matched" =>
    /\ PairsOf(matches) = PairsOf(matchAdsToplacements(placements, SelectSeq(clientAds, SizeParses)).matches)
    /\ ParseableSortedByArea

\* the same where every size parses or the unparseable creatives stand at
\* the end of the list: there the claim holds
UnparseableLastHasNoInfluence ==
  (\A m, n \in DOMAIN clientAds : (m < n /\ ~SizeParses(clientAds[m])) => ~SizeParses(clientAds[n]))
    => UnparseableHasNoInfluence

====
